---- MODULE Spec2Model ----
(***************************************************************************)
(* Vigilo connector: the forwarding pipelines between a local socket and   *)
(* the message bus.                                                        *)
(*                                                                         *)
(*   PSF_*  PubSubForwarder / PubSubSender      (forwarder.py)             *)
(*   BP_*   BackupProvider feeding BusPublisher (handlers.py)              *)
(*   STN_*  SocketToNodeForwarder               (sockettonodefw.py)        *)
(*                                                                         *)
(* The three forwarders are independent objects.  The variable sys names   *)
(* the one a behaviour is about; the variables of the others keep their    *)
(* values after construction.                                              *)
(*                                                                         *)
(* The retry store (vigilo.connector.store.DbRetry) is a FIFO of           *)
(* serialized payloads: put appends at the call, pop removes the oldest    *)
(* entry when the database operation completes.                            *)
(***************************************************************************)
EXTENDS Integers, Sequences, FiniteSets, TLC

\* ------------------------------------------------------------ bounds
\* Number of messages a behaviour ingests.
MaxMsgs == 3
\* Number of faults (failed publishes and connection losses) a behaviour sees.
MaxFaults == 1
\* The configured max_queue_size of a bounded queue.
QMax == 2
\* The configured batch_send_perf of a batching publisher.
BatchSize == 2

\* The configurations of max_send_simult that are explored: 1 is the value
\* PubSubForwarder.__init__ sets, 2 a configured value after the 20% margin.
SimultValues == {1, 2}

VARIABLES
    sys,            \* which forwarder the behaviour is about
    lastop,         \* the handler that ran last, where a property is about it
    \* ---- PubSubForwarder / PubSubSender
    psf_connected,  \* xmlstream is not None
    psf_queue,      \* self.queue
    psf_retry,      \* self.retry (DbRetry content, oldest first)
    psf_processing, \* self._processing_queue
    psf_pc,         \* where processQueue is suspended: idle/put/qsize/pop/yield/wait
    psf_hand,       \* the message whose publish the worker awaits (yield result)
    psf_pending,    \* self._pending_replies (the messages of the Deferreds)
    psf_inflight,   \* publishes whose Deferred has not fired
    psf_calls,      \* reactor.callLater(0, processQueue) calls not yet run
    psf_running,    \* self._task_process_queue.running
    psf_startcb,    \* start_task callbacks waiting for initdb
    psf_max,        \* self.max_send_simult
    \* history of the PubSubForwarder behaviour
    psf_n,          \* number of forwardMessage calls so far (message ids 1..n)
    psf_processed,  \* the elements processMessage publishes, in order
    psf_delivered,  \* the messages whose publish succeeded
    psf_nfail,      \* number of failed publishes
    psf_nlost,      \* number of connection losses
    psf_discIngest, \* a message was ingested while the bus was disconnected
    psf_sent,       \* PubSubSender._messages_sent
    psf_forwarded,  \* self._messages_forwarded
    psf_starts,     \* history: number of calls of self._task_process_queue.start
    psf_o2o,        \* the ids of the messages ingested that are oneToOne elements
    psf_nonode,     \* the ids of those whose type is not in self._nodetopublish
    \* ---- BackupProvider (bp_*) and its consumer, a BusPublisher (pub_*)
    bp_maxq,        \* self.max_queue_size (0 stands for None: no limit)
    bp_paused,      \* self.paused
    bp_queue,       \* self.queue
    bp_retry,       \* self.retry (DbRetry content, oldest first)
    bp_dbinit,      \* self.retry.initialized.called
    bp_resumecb,    \* resumeProducing has chained processQueue to retry.initialized
    bp_processing,  \* self._processing_queue
    bp_pc,          \* where processQueue is suspended: idle/getnext/write
    bp_hand,        \* the message of the consumer.write the worker awaits
    bp_saving,      \* processQueue calls suspended at yield self._saveToDb()
    pub_initialized,\* BusPublisher._initialized
    pub_batchsize,  \* BusPublisher.batch_send_perf
    pub_batch,      \* BusPublisher._batch_perf_queue
    pub_sending,    \* the ids in the payload of the client.send not yet answered
    \* history of the BackupProvider behaviour
    bp_n,           \* number of write calls so far (message ids 1..n)
    bp_last,        \* the id of the latest message handed to consumer.write
    bp_delivered,   \* the ids the bus has acknowledged
    bp_stopped,     \* stopService has completed
    bp_prodpaused,  \* the provider has asked its upstream producer to pause
    \* ---- SocketToNodeForwarder
    stn_connected,  \* self.xmlstream is not None
    stn_store,      \* self.retry (DbRetry content, oldest first)
    stn_backuptoempty, \* self.__backuptoempty
    stn_inflight,   \* publishes whose Deferred has not fired
    \* history of the SocketToNodeForwarder behaviour
    stn_n,          \* number of lines received so far (message ids 1..n)
    stn_published,  \* the ids handed to the bus (publish or send), in order
    stn_delivered,  \* the ids the bus has acknowledged, and the chats sent
    stn_nfail,      \* number of failed publishes
    stn_raised,     \* the latest handler let an exception escape
    \* ---- MessageHandler (mh_*) and PubSubListener (psl_*): the receiving side
    mh_pc,          \* what write awaits: idle/single/list
    mh_msg,         \* the bus message write is processing
    mh_list,        \* msglist of _processList: the children not yet processed
    mh_n,           \* number of write calls so far (delivery tags 1..n)
    mh_received,    \* history: the contents sent to the handler, in order
    mh_processed,   \* history: the arguments of processMessage, in order
    mh_acks,        \* history: the delivery tags given to producer.ack, in order
    mh_failed,      \* history: the delivery tags whose processing failed
    psl_queue,      \* PubSubListener.queue: the elements given to forwardMessage
    psl_received,   \* history: the payloads of the items and chats received
    \* ---- NodeToSocketForwarder
    nts_connected,  \* self.__connector.state == 'connected'
    nts_store,      \* the backup file (oldest first)
    nts_backuptoempty, \* self.__backuptoempty
    nts_n,          \* number of events received so far (message ids 1..n)
    nts_arrived,    \* history: the ids of the items of the subscribed node
    nts_written,    \* history: what transport.write was given, in order
    \* ---- functions applied to one input
    tx_line,        \* the line given to text2xml
    tx_out,         \* what text2xml returned or raised ("-" before the call)
    sm_msg,         \* the latest message given to BusPublisher.sendMessage
    pub_sent,       \* BusPublisher._messages_sent
    sm_publications,\* BusPublisher._publications
    sm_sent,        \* the arguments of the latest client.send
    db_store,       \* the DbRetry of test_dbretry
    db_nput,        \* number of put calls so far (payloads 1..n)
    db_got,         \* history: what get returned, in order
    \* ---- QueueSubscriber feeding a MessageHandler, in one record:
    \*   channel, queue   QueueSubscriber._channel, ._queue are set
    \*   subscribing      the chain _create, _bind, _subscribe is in progress
    \*   readyfired       self.ready has been called back
    \*   readycb          self.ready carries the callback of registerProducer
    \*   gets             the Deferreds of self._queue.get() that have not fired
    \*   n                history: number of messages the queue has delivered
    \*   producer         MessageHandler.producer is set
    \*   keepProducing    MessageHandler.keepProducing
    \*   writes           the writes in progress: for each, whether its
    \*                    Deferred carries the call of producer.resumeProducing
    qs,
    \* ---- BackupProvider as the producer of a BusPublisher, in one record:
    \*   initialized      BusPublisher._initialized
    \*   producer         BusPublisher.producer is set
    \*   paused           BackupProvider.paused
    reg

psfvars == <<psf_connected, psf_queue, psf_retry, psf_processing, psf_pc,
             psf_hand, psf_pending, psf_inflight, psf_calls, psf_running,
             psf_startcb, psf_max, psf_n, psf_processed, psf_delivered,
             psf_nfail, psf_nlost, psf_discIngest, psf_sent, psf_forwarded,
             psf_starts, psf_o2o, psf_nonode>>

bpvars == <<bp_maxq, bp_paused, bp_queue, bp_retry, bp_dbinit, bp_resumecb,
            bp_processing, bp_pc, bp_hand, bp_saving, pub_initialized,
            pub_batchsize, pub_batch, pub_sending, bp_n, bp_last, bp_delivered,
            bp_stopped, bp_prodpaused>>

stnvars == <<stn_connected, stn_store, stn_backuptoempty, stn_inflight, stn_n,
             stn_published, stn_delivered, stn_nfail, stn_raised>>

rcvvars == <<mh_pc, mh_msg, mh_list, mh_n, mh_received, mh_processed, mh_acks,
             mh_failed, psl_queue, psl_received>>

ntsvars == <<nts_connected, nts_store, nts_backuptoempty, nts_n, nts_arrived,
             nts_written>>

txvars == <<tx_line, tx_out>>

smvars == <<sm_msg, sm_publications, sm_sent, pub_sent>>

dbvars == <<db_store, db_nput, db_got>>

\* The variables of the three forwarders above, and those of the rest.
fwdvars == <<lastop, psfvars, bpvars, stnvars>>

busvars == <<qs, reg>>

extvars == <<rcvvars, ntsvars, txvars, smvars, dbvars, busvars>>

vars == <<sys, fwdvars, extvars>>

\* ------------------------------------------------------------ messages
\* A message is a payload id with its form: a parsed element (str = FALSE) or
\* its serialized text (str = TRUE).
Elem(i) == [id |-> i, str |-> FALSE]

\* msg.toXml().encode("utf-8")
ToXml(m) == [m EXCEPT !.str = TRUE]

\* wokkel.generic.parseXml(msg)
ParseXml(s) == [s EXCEPT !.str = FALSE]

\* the ids of a sequence of messages
Ids(s) == [i \in 1..Len(s) |-> s[i].id]

\* the set of ids of a sequence of messages
IdSet(s) == {s[i].id : i \in 1..Len(s)}

\* <<1, ..., n>>
UpTo(n) == [i \in 1..n |-> i]

\* ------------------------------------------------------------ retry store
\* DbRetry.put(payload): one more row, after the rows already there.
StorePut(store, payload) == Append(store, payload)

\* What DbRetry.pop() returns: the oldest row.
StoreOldest(store) == Head(store)

\* DbRetry after pop(): the row returned is deleted.
StoreAfterPop(store) == Tail(store)

\* DbRetry.qsize()
StoreSize(store) == Len(store)

\* ------------------------------------------------------------ PubSubForwarder
\* processQueue, lines 173-176: the payload stored for a queue item.
PSF_Stored(msg) == IF msg.str THEN msg ELSE ToXml(msg)

\* PubSubSender.processMessage, lines 303-304: the element that is published.
PSF_Element(msg) == IF msg.str THEN ParseXml(msg) ELSE msg

\* A worker that would try the in-memory queue before the store.
PSF_NextSource_queueFirst(retry, queue) ==
    IF queue # <<>> THEN "queue"
    ELSE IF retry # <<>> THEN "retry"
    ELSE "none"

\* processQueue, lines 190-200: where the next message comes from.
PSF_NextSource(retry, queue) ==
    IF retry # <<>> THEN "retry"
    ELSE IF queue # <<>> THEN "queue"
    ELSE "none"

\* DeferredList(self._pending_replies) has fired: no reply is outstanding.
PSF_AllSettled(pend, infl) == \A i \in 1..Len(pend) : pend[i] \notin infl

\* processQueue, lines 216-220: after the loop, wait for the replies if any,
\* then clear the flag and schedule the next call.
PSF_AfterLoop(pend, infl) ==
    IF pend # <<>> /\ ~PSF_AllSettled(pend, infl)
    THEN [pc |-> "wait", pending |-> pend, processing |-> TRUE, resched |-> 0]
    ELSE [pc |-> "idle", pending |-> <<>>, processing |-> FALSE, resched |-> 1]

\* processQueue, line 189: the loop goes on while the bus is connected.
PSF_LoopTop(conn, pend, infl) ==
    IF conn
    THEN [pc |-> "pop", pending |-> pend, processing |-> TRUE, resched |-> 0]
    ELSE PSF_AfterLoop(pend, infl)

\* A worker that would break its loop only once the list of pending replies
\* is longer than max_send_simult.
PSF_AfterSend_late(max, conn, pend, infl, m, fired) ==
    IF max <= 1
    THEN IF fired THEN PSF_LoopTop(conn, pend, infl)
         ELSE [pc |-> "yield", pending |-> pend, processing |-> TRUE, resched |-> 0]
    ELSE IF Len(Append(pend, m)) > max
         THEN PSF_AfterLoop(Append(pend, m), infl)
         ELSE PSF_LoopTop(conn, Append(pend, m), infl)

\* processQueue, lines 206-215: what follows a publish whose Deferred is result.
\* With max_send_simult <= 1 the worker yields on it; otherwise it is appended to
\* _pending_replies and the loop breaks when the list is full.
PSF_AfterSend(max, conn, pend, infl, m, fired) ==
    IF max <= 1
    THEN IF fired THEN PSF_LoopTop(conn, pend, infl)
         ELSE [pc |-> "yield", pending |-> pend, processing |-> TRUE, resched |-> 0]
    ELSE IF Len(Append(pend, m)) >= max
         THEN PSF_AfterLoop(Append(pend, m), infl)
         ELSE PSF_LoopTop(conn, Append(pend, m), infl)

PSF_Goto(c) ==
    /\ psf_pc' = c.pc
    /\ psf_pending' = c.pending
    /\ psf_processing' = c.processing
    /\ psf_calls' = psf_calls + c.resched

\* PubSubForwarder.connectionInitialized (with PubSubSender's override).
PSF_connectionInitialized ==
    /\ sys = "psf"
    /\ ~psf_connected
    /\ psf_connected' = TRUE
    /\ psf_startcb' = IF psf_running THEN psf_startcb ELSE psf_startcb + 1
    /\ psf_sent' = 0
    /\ psf_forwarded' = 0
    /\ lastop' = "-"
    /\ UNCHANGED <<sys, extvars, bpvars, stnvars, psf_o2o, psf_nonode, psf_starts, psf_queue, psf_retry, psf_processing, psf_pc, psf_hand,
                   psf_pending, psf_inflight, psf_calls, psf_running, psf_max,
                   psf_n, psf_processed, psf_delivered, psf_nfail, psf_nlost,
                   psf_discIngest>>

\* A start_task that would start the task whether it runs or not.
PSF_TaskStarts_unchecked(running) == 1

\* start_task, lines 99-101: the number of calls of start, none when the task
\* is running already.
PSF_TaskStarts(running) == IF running THEN 0 ELSE 1

\* start_task, the callback of retry.initdb() in connectionInitialized.
PSF_start_task ==
    /\ sys = "psf"
    /\ psf_startcb > 0
    /\ psf_startcb' = psf_startcb - 1
    /\ psf_running' = TRUE
    /\ psf_starts' = psf_starts + PSF_TaskStarts(psf_running)
    /\ lastop' = "-"
    /\ UNCHANGED <<sys, extvars, bpvars, stnvars, psf_o2o, psf_nonode, psf_sent, psf_forwarded, psf_connected, psf_queue, psf_retry, psf_processing,
                   psf_pc, psf_hand, psf_pending, psf_inflight, psf_calls,
                   psf_max, psf_n, psf_processed, psf_delivered, psf_nfail,
                   psf_nlost, psf_discIngest>>

\* PubSubForwarder.connectionLost: the stream is gone, the store is flushed.
PSF_connectionLost ==
    /\ sys = "psf"
    /\ psf_connected
    /\ psf_nfail + psf_nlost < MaxFaults
    /\ psf_nlost' = psf_nlost + 1
    /\ psf_connected' = FALSE
    /\ lastop' = "-"
    /\ UNCHANGED <<sys, extvars, bpvars, stnvars, psf_o2o, psf_nonode, psf_sent, psf_forwarded, psf_starts, psf_queue, psf_retry, psf_processing, psf_pc, psf_hand,
                   psf_pending, psf_inflight, psf_calls, psf_running,
                   psf_startcb, psf_max, psf_n, psf_processed, psf_delivered,
                   psf_nfail, psf_discIngest>>

\* PubSubForwarder.forwardMessage(msg): the messages are numbered in the order
\* they are ingested.
PSF_forwardMessage ==
    /\ sys = "psf"
    /\ psf_n < MaxMsgs
    /\ psf_n' = psf_n + 1
    /\ psf_queue' = Append(psf_queue, Elem(psf_n + 1))
    /\ psf_calls' = psf_calls + 1
    /\ psf_discIngest' = (psf_discIngest \/ ~psf_connected)
    /\ lastop' = "-"
    /\ UNCHANGED <<sys, extvars, bpvars, stnvars, psf_o2o, psf_nonode, psf_sent, psf_forwarded, psf_starts, psf_connected, psf_retry, psf_processing, psf_pc,
                   psf_hand, psf_pending, psf_inflight, psf_running,
                   psf_startcb, psf_max, psf_processed, psf_delivered,
                   psf_nfail, psf_nlost>>

\* A worker whose disconnected drain would take the item off the queue without
\* putting it in the store.
PSF_Enter_dropping ==
    IF psf_processing
    THEN UNCHANGED <<psf_queue, psf_retry, psf_processing, psf_pc>>
    ELSE IF ~psf_connected
    THEN IF psf_queue = <<>>
         THEN UNCHANGED <<psf_queue, psf_retry, psf_processing, psf_pc>>
         ELSE /\ psf_queue' = Tail(psf_queue)
              /\ psf_retry' = psf_retry
              /\ psf_processing' = TRUE
              /\ psf_pc' = "put"
    ELSE /\ psf_processing' = TRUE
         /\ psf_pc' = "qsize"
         /\ UNCHANGED <<psf_queue, psf_retry>>

\* processQueue up to its first yield (lines 167-182).
PSF_Enter ==
    IF psf_processing
    THEN UNCHANGED <<psf_queue, psf_retry, psf_processing, psf_pc>>
    ELSE IF ~psf_connected
    THEN IF psf_queue = <<>>
         THEN UNCHANGED <<psf_queue, psf_retry, psf_processing, psf_pc>>
         ELSE /\ psf_queue' = Tail(psf_queue)
              /\ psf_retry' = StorePut(psf_retry, PSF_Stored(Head(psf_queue)))
              /\ psf_processing' = TRUE
              /\ psf_pc' = "put"
    ELSE /\ psf_processing' = TRUE
         /\ psf_pc' = "qsize"
         /\ UNCHANGED <<psf_queue, psf_retry>>

\* A call scheduled by reactor.callLater(0, self.processQueue) runs.
PSF_processQueue ==
    /\ sys = "psf"
    /\ psf_calls > 0
    /\ psf_calls' = psf_calls - 1
    /\ PSF_Enter
    /\ lastop' = "-"
    /\ UNCHANGED <<sys, extvars, bpvars, stnvars, psf_o2o, psf_nonode, psf_sent, psf_forwarded, psf_starts, psf_connected, psf_hand, psf_pending, psf_inflight,
                   psf_running, psf_startcb, psf_max, psf_n, psf_processed,
                   psf_delivered, psf_nfail, psf_nlost, psf_discIngest>>

\* The LoopingCall started by start_task calls processQueue (every 5 seconds).
PSF_tick ==
    /\ sys = "psf"
    /\ psf_running
    /\ PSF_Enter
    /\ lastop' = "-"
    /\ UNCHANGED <<sys, extvars, bpvars, stnvars, psf_o2o, psf_nonode, psf_sent, psf_forwarded, psf_starts, psf_connected, psf_hand, psf_pending, psf_inflight,
                   psf_calls, psf_running, psf_startcb, psf_max, psf_n,
                   psf_processed, psf_delivered, psf_nfail, psf_nlost, psf_discIngest>>

\* A drain that would return after its first put, whatever is left queued.
PSF_putDone_once ==
    /\ sys = "psf"
    /\ psf_pc = "put"
    /\ psf_pc' = "idle"
    /\ psf_processing' = FALSE
    /\ lastop' = "-"
    /\ UNCHANGED <<sys, extvars, bpvars, stnvars, psf_o2o, psf_nonode, psf_sent, psf_forwarded, psf_starts, psf_connected, psf_queue, psf_retry,
                   psf_hand, psf_pending, psf_inflight, psf_calls, psf_running,
                   psf_startcb, psf_max, psf_n, psf_processed, psf_delivered,
                   psf_nfail, psf_nlost, psf_discIngest>>

\* processQueue resumes after yield self.retry.put(msg) (lines 173-179).
PSF_putDone ==
    /\ sys = "psf"
    /\ psf_pc = "put"
    /\ IF psf_queue # <<>>
       THEN /\ psf_queue' = Tail(psf_queue)
            /\ psf_retry' = StorePut(psf_retry, PSF_Stored(Head(psf_queue)))
            /\ UNCHANGED <<psf_pc, psf_processing>>
       ELSE /\ psf_pc' = "idle"
            /\ psf_processing' = FALSE
            /\ UNCHANGED <<psf_queue, psf_retry>>
    /\ lastop' = "-"
    /\ UNCHANGED <<sys, extvars, bpvars, stnvars, psf_o2o, psf_nonode, psf_sent, psf_forwarded, psf_starts, psf_connected, psf_hand, psf_pending, psf_inflight,
                   psf_calls, psf_running, psf_startcb, psf_max, psf_n,
                   psf_processed, psf_delivered, psf_nfail, psf_nlost, psf_discIngest>>

\* processQueue resumes after yield self.retry.qsize() (lines 182-189).
PSF_qsizeDone ==
    /\ sys = "psf"
    /\ psf_pc = "qsize"
    /\ IF Len(psf_queue) = 0 /\ StoreSize(psf_retry) = 0
       THEN /\ psf_pc' = "idle"
            /\ psf_processing' = FALSE
            /\ UNCHANGED <<psf_pending, psf_calls>>
       ELSE PSF_Goto(PSF_LoopTop(psf_connected, psf_pending, psf_inflight))
    /\ lastop' = "-"
    /\ UNCHANGED <<sys, extvars, bpvars, stnvars, psf_o2o, psf_nonode, psf_sent, psf_forwarded, psf_starts, psf_connected, psf_queue, psf_retry, psf_hand,
                   psf_inflight, psf_running, psf_startcb, psf_max, psf_n,
                   psf_processed, psf_delivered, psf_nfail, psf_nlost, psf_discIngest>>

\* A worker that would take the newest item of the queue.
PSF_Next_newest(retry, queue) ==
    IF PSF_NextSource(retry, queue) = "retry" THEN StoreOldest(retry)
    ELSE queue[Len(queue)]

\* The message taken by lines 190-200.
PSF_Next(retry, queue) ==
    IF PSF_NextSource(retry, queue) = "retry" THEN StoreOldest(retry)
    ELSE Head(queue)

\* A worker that would treat what processMessage returns for a oneToOne
\* message as the Deferred of a publish.
PSF_AfterOneToOne_awaited(max, conn, pend, infl, m) ==
    PSF_AfterSend(max, conn, pend, infl, m, FALSE)

\* processQueue, lines 203-205: processMessage returned None, as it does for a
\* oneToOne message (PubSubSender.processMessage, lines 304-306): the loop
\* continues.
PSF_AfterOneToOne(max, conn, pend, infl, m) == PSF_LoopTop(conn, pend, infl)

\* A publishXml that would skip what it cannot send for lack of a stream.
PSF_publishXml_dropping(nonode, conn) ==
    IF nonode \/ ~conn THEN "skipped" ELSE "sent"

\* PubSubSender.publishXml(xml), lines 351-370, by what becomes of the message.
\* A message whose type has no destination node is logged and skipped, and
\* the Deferred returned has fired (lines 357-360).  Otherwise it is
\* published; without a stream the publish fails at once and the errback
\* _send_failed stores the payload (lines 363-369).
PSF_publishXml(nonode, conn) ==
    IF nonode THEN "skipped"
    ELSE IF conn THEN "sent"
    ELSE "stored"

\* processQueue resumes after yield self.retry.pop() (lines 192-215): the next
\* message is taken and handed to processMessage, and both counters are
\* incremented.  PubSubSender.publishXml publishes it; without a stream the
\* publish fails at once and _send_failed stores the payload (lines 363-369).
\* A oneToOne message is sent on the stream by sendOneToOneXml, or stored by
\* _send_failed without a stream (lines 344-349).
PSF_popDone ==
    /\ sys = "psf"
    /\ psf_pc = "pop"
    /\ LET src == PSF_NextSource(psf_retry, psf_queue) IN
       IF src = "none"
       THEN /\ PSF_Goto(PSF_AfterLoop(psf_pending, psf_inflight))
            /\ UNCHANGED <<psf_queue, psf_retry, psf_hand, psf_inflight,
                           psf_processed, psf_delivered, psf_sent, psf_forwarded>>
       ELSE LET raw   == PSF_Next(psf_retry, psf_queue)
                msg   == PSF_Element(raw)
                r1    == IF src = "retry" THEN StoreAfterPop(psf_retry) ELSE psf_retry
                o2o   == msg.id \in psf_o2o
                out   == IF o2o
                         THEN IF psf_connected THEN "pushed" ELSE "stored"
                         ELSE PSF_publishXml(msg.id \in psf_nonode, psf_connected)
                infl  == IF out = "sent" THEN psf_inflight \cup {msg.id}
                         ELSE psf_inflight
                c     == IF o2o
                         THEN PSF_AfterOneToOne(psf_max, psf_connected, psf_pending,
                                                infl, msg.id)
                         ELSE PSF_AfterSend(psf_max, psf_connected, psf_pending, infl,
                                            msg.id, out # "sent")
            IN  /\ psf_queue' = IF src = "queue" THEN Tail(psf_queue) ELSE psf_queue
                /\ psf_retry' = IF out = "stored" THEN StorePut(r1, ToXml(msg))
                                ELSE r1
                /\ psf_processed' = Append(psf_processed, msg)
                /\ psf_forwarded' = psf_forwarded + 1
                /\ psf_sent' = psf_sent + 1
                /\ psf_inflight' = infl
                /\ psf_delivered' = IF out = "pushed"
                                    THEN psf_delivered \cup {msg.id}
                                    ELSE psf_delivered
                /\ psf_hand' = IF c.pc = "yield" THEN msg.id ELSE 0
                /\ PSF_Goto(c)
    /\ lastop' = "-"
    /\ UNCHANGED <<sys, extvars, bpvars, stnvars, psf_o2o, psf_nonode, psf_starts, psf_connected, psf_running, psf_startcb, psf_max,
                   psf_n, psf_nfail, psf_nlost, psf_discIngest>>

\* The Deferred of publish m fires: the worker that waits for it resumes
\* (yield result, line 207; yield self.waitForReplies(), line 217).
PSF_Resume(m, infl) ==
    IF psf_pc = "yield" /\ psf_hand = m
    THEN /\ PSF_Goto(PSF_LoopTop(psf_connected, psf_pending, infl))
         /\ psf_hand' = 0
    ELSE IF psf_pc = "wait" /\ PSF_AllSettled(psf_pending, infl)
    THEN /\ PSF_Goto(PSF_AfterLoop(psf_pending, infl))
         /\ UNCHANGED psf_hand
    ELSE UNCHANGED <<psf_pc, psf_pending, psf_processing, psf_calls, psf_hand>>

\* The bus acknowledges publish m.
PSF_publishOk(m) ==
    /\ sys = "psf"
    /\ m \in psf_inflight
    /\ psf_inflight' = psf_inflight \ {m}
    /\ psf_delivered' = psf_delivered \cup {m}
    /\ PSF_Resume(m, psf_inflight \ {m})
    /\ lastop' = "-"
    /\ UNCHANGED <<sys, extvars, bpvars, stnvars, psf_o2o, psf_nonode, psf_sent, psf_forwarded, psf_starts, psf_connected, psf_queue, psf_retry, psf_running,
                   psf_startcb, psf_max, psf_n, psf_processed, psf_nfail,
                   psf_nlost, psf_discIngest>>

\* The error conditions a failed publish carries (the condition of the
\* StanzaError, or a lost connection).
Conditions == {"remote-server-timeout", "not-acceptable"}

\* An errback that would log the failure and store nothing.
PSF_send_failed_logOnly(retry, m, cond) == retry

\* PubSubForwarder._send_failed(e, msg), the errback of publishXml (line 369):
\* the payload goes back to the store, whatever the error e is.
PSF_send_failed(retry, m, cond) == StorePut(retry, ToXml(Elem(m)))

\* Publish m fails with error condition cond.
PSF_publishFail(m, cond) ==
    /\ sys = "psf"
    /\ m \in psf_inflight
    /\ psf_nfail + psf_nlost < MaxFaults
    /\ psf_nfail' = psf_nfail + 1
    /\ psf_inflight' = psf_inflight \ {m}
    /\ psf_retry' = PSF_send_failed(psf_retry, m, cond)
    /\ PSF_Resume(m, psf_inflight \ {m})
    /\ lastop' = "-"
    /\ UNCHANGED <<sys, extvars, bpvars, stnvars, psf_o2o, psf_nonode, psf_sent, psf_forwarded, psf_starts, psf_connected, psf_queue, psf_running, psf_startcb,
                   psf_max, psf_n, psf_processed, psf_delivered, psf_nlost,
                   psf_discIngest>>

\* PubSubForwarder.__init__ / PubSubSender.__init__
PSF_init(maxes) ==
    /\ psf_connected = FALSE
    /\ psf_queue = <<>>
    /\ psf_retry = <<>>
    /\ psf_processing = FALSE
    /\ psf_pc = "idle"
    /\ psf_hand = 0
    /\ psf_pending = <<>>
    /\ psf_inflight = {}
    /\ psf_calls = 0
    /\ psf_running = FALSE
    /\ psf_startcb = 0
    /\ psf_max \in maxes
    /\ psf_n = 0
    /\ psf_processed = <<>>
    /\ psf_delivered = {}
    /\ psf_nfail = 0
    /\ psf_nlost = 0
    /\ psf_discIngest = FALSE
    /\ psf_sent = 0
    /\ psf_forwarded = 0
    /\ psf_starts = 0

NextPSF ==
    \/ PSF_connectionInitialized
    \/ PSF_start_task
    \/ PSF_connectionLost
    \/ PSF_forwardMessage
    \/ PSF_processQueue
    \/ PSF_tick
    \/ PSF_putDone
    \/ PSF_qsizeDone
    \/ PSF_popDone
    \/ \E m \in 1..MaxMsgs : PSF_publishOk(m)
    \/ \E m \in 1..MaxMsgs, cond \in Conditions : PSF_publishFail(m, cond)

\* ------------------------------------------------------------ BackupProvider
\* A message written to the provider: an id, its type, and its form (the
\* object, or its JSON text in the store).
Msg(i, k) == [id |-> i, kind |-> k, str |-> FALSE]

\* json.dumps(msg)
JsonDumps(m) == [m EXCEPT !.str = TRUE]

\* json.loads(msg)
JsonLoads(s) == [s EXCEPT !.str = FALSE]

BP_NoMsg == Msg(0, "none")

\* The types of the messages written: perf is the one BusPublisher batches.
Kinds == {"perf", "event"}

\* self.queue.append(x) on deque(maxlen=max_queue_size): a full deque discards
\* the item at the opposite end.
BP_Append(q, x, maxq) ==
    IF maxq > 0 /\ Len(q) >= maxq THEN Append(Tail(q), x) ELSE Append(q, x)

\* BackupProvider._saveToDb: every item of the queue is put in the store, in
\* queue order.
RECURSIVE BP_saveToDb(_, _)
BP_saveToDb(retry, queue) ==
    IF Len(queue) > 0
    THEN BP_saveToDb(StorePut(retry, JsonDumps(Head(queue))), Tail(queue))
    ELSE retry

\* BackupProvider._getNextMsg: the store first, then the queue.
BP_NextSource(retry, queue) ==
    IF retry # <<>> THEN "retry"
    ELSE IF queue # <<>> THEN "queue"
    ELSE "none"

\* An accumulation that would leave the buffer as it is after sending the
\* aggregate.
PUB_accumulate_keeping(batch, msg, size) ==
    IF size <= 1 \/ msg.kind # "perf"
    THEN [batch |-> batch, payload |-> <<msg.id>>]
    ELSE IF Len(Append(batch, msg.id)) < size
         THEN [batch |-> Append(batch, msg.id), payload |-> <<>>]
         ELSE [batch |-> Append(batch, msg.id), payload |-> Append(batch, msg.id)]

\* BusPublisher._accumulate_perf_msgs: the batch buffer afterwards and the ids
\* of the message to send (none while the batch fills).
PUB_accumulate(batch, msg, size) ==
    IF size <= 1 \/ msg.kind # "perf"
    THEN [batch |-> batch, payload |-> <<msg.id>>]
    ELSE IF Len(Append(batch, msg.id)) < size
         THEN [batch |-> Append(batch, msg.id), payload |-> <<>>]
         ELSE [batch |-> <<>>, payload |-> Append(batch, msg.id)]

\* A processQueue that would not look at the processing flag.
BP_Enter_reentrant(q, paused) ==
    IF paused
    THEN /\ bp_queue' = <<>>
         /\ bp_retry' = BP_saveToDb(bp_retry, q)
         /\ bp_saving' = IF q # <<>> THEN bp_saving + 1 ELSE bp_saving
         /\ UNCHANGED <<bp_processing, bp_pc>>
    ELSE /\ bp_queue' = q
         /\ bp_processing' = TRUE
         /\ bp_pc' = "getnext"
         /\ UNCHANGED <<bp_retry, bp_saving>>

\* BackupProvider.processQueue up to its first yield, called with queue q and
\* the paused flag (lines 475-483).
BP_Enter(q, paused) ==
    IF bp_processing
    THEN /\ bp_queue' = q
         /\ UNCHANGED <<bp_retry, bp_processing, bp_pc, bp_saving>>
    ELSE IF paused
    THEN /\ bp_queue' = <<>>
         /\ bp_retry' = BP_saveToDb(bp_retry, q)
         /\ bp_saving' = IF q # <<>> THEN bp_saving + 1 ELSE bp_saving
         /\ UNCHANGED <<bp_processing, bp_pc>>
    ELSE /\ bp_queue' = q
         /\ bp_processing' = TRUE
         /\ bp_pc' = "getnext"
         /\ UNCHANGED <<bp_retry, bp_saving>>

\* BackupProvider.write(data)
BP_write(k) ==
    /\ sys = "bp"
    /\ bp_n < MaxMsgs
    /\ bp_n' = bp_n + 1
    /\ BP_Enter(BP_Append(bp_queue, Msg(bp_n + 1, k), bp_maxq), bp_paused)
    /\ lastop' = IF bp_processing THEN "skip" ELSE "-"
    /\ UNCHANGED <<sys, extvars, psfvars, stnvars, bp_maxq, bp_prodpaused, bp_paused, bp_dbinit,
                   bp_resumecb, bp_hand, pub_initialized, pub_batchsize,
                   pub_batch, pub_sending, bp_last, bp_delivered, bp_stopped>>

\* The processQueue call suspended at yield self._saveToDb() returns.
BP_saveDone ==
    /\ sys = "bp"
    /\ bp_saving > 0
    /\ bp_saving' = bp_saving - 1
    /\ lastop' = "-"
    /\ UNCHANGED <<sys, extvars, psfvars, stnvars, bp_maxq, bp_prodpaused, bp_paused, bp_queue,
                   bp_retry, bp_dbinit, bp_resumecb, bp_processing, bp_pc,
                   bp_hand, pub_initialized, pub_batchsize, pub_batch,
                   pub_sending, bp_n, bp_last, bp_delivered, bp_stopped>>

\* BackupProvider.startService: retry.initdb() completes, and with it the
\* processQueue call that resumeProducing chained to retry.initialized.
BP_startService ==
    /\ sys = "bp"
    /\ ~bp_dbinit
    /\ bp_dbinit' = TRUE
    /\ bp_resumecb' = FALSE
    /\ IF bp_resumecb
       THEN BP_Enter(bp_queue, bp_paused)
       ELSE UNCHANGED <<bp_queue, bp_retry, bp_processing, bp_pc, bp_saving>>
    /\ lastop' = "-"
    /\ UNCHANGED <<sys, extvars, psfvars, stnvars, bp_maxq, bp_prodpaused, bp_paused, bp_hand,
                   pub_initialized, pub_batchsize, pub_batch, pub_sending,
                   bp_n, bp_last, bp_delivered, bp_stopped>>

\* BusPublisher.connectionInitialized, which resumes its producer
\* (BackupProvider.resumeProducing).
BP_connectionInitialized ==
    /\ sys = "bp"
    /\ ~pub_initialized
    /\ pub_initialized' = TRUE
    /\ bp_paused' = FALSE
    /\ IF bp_dbinit
       THEN /\ BP_Enter(bp_queue, FALSE)
            /\ UNCHANGED bp_resumecb
       ELSE /\ bp_resumecb' = TRUE
            /\ UNCHANGED <<bp_queue, bp_retry, bp_processing, bp_pc, bp_saving>>
    /\ lastop' = "-"
    /\ UNCHANGED <<sys, extvars, psfvars, stnvars, bp_maxq, bp_prodpaused, bp_dbinit, bp_hand,
                   pub_batchsize, pub_batch, pub_sending, bp_n, bp_last, bp_delivered,
                   bp_stopped>>

\* BusPublisher.connectionLost, which pauses its producer
\* (BackupProvider.pauseProducing: the queue is saved and the store flushed).
BP_connectionLost ==
    /\ sys = "bp"
    /\ pub_initialized
    /\ pub_initialized' = FALSE
    /\ bp_paused' = TRUE
    /\ bp_retry' = BP_saveToDb(bp_retry, bp_queue)
    /\ bp_queue' = <<>>
    /\ lastop' = "-"
    /\ UNCHANGED <<sys, extvars, psfvars, stnvars, bp_maxq, bp_prodpaused, bp_dbinit, bp_resumecb,
                   bp_processing, bp_pc, bp_hand, bp_saving, pub_batchsize,
                   pub_batch, pub_sending, bp_n, bp_last, bp_delivered, bp_stopped>>

\* BackupProvider.stopService (no upstream producer registered): the queue is
\* saved and the store flushed.
BP_stopService ==
    /\ sys = "bp"
    /\ ~bp_stopped
    /\ bp_stopped' = TRUE
    /\ bp_retry' = BP_saveToDb(bp_retry, bp_queue)
    /\ bp_queue' = <<>>
    /\ lastop' = "stopService"
    /\ UNCHANGED <<sys, extvars, psfvars, stnvars, bp_maxq, bp_prodpaused, bp_paused, bp_dbinit,
                   bp_resumecb, bp_processing, bp_pc, bp_hand, bp_saving,
                   pub_initialized, pub_batchsize, pub_batch, pub_sending,
                   bp_n, bp_last, bp_delivered>>

\* processQueue, lines 488-489: consumer.write(msg) has failed and the except
\* clause calls _send_failed(e, msg) with the exception raised into the
\* generator.  _send_failed reads e.value: when the exception has that
\* attribute the message is appended to the queue and the loop goes on; when it
\* has none, AttributeError leaves processQueue before the flag is cleared.
BP_send_failed(msg, q, hasValue) ==
    IF hasValue
    THEN /\ bp_queue' = BP_Append(q, msg, bp_maxq)
         /\ bp_pc' = "getnext"
         /\ UNCHANGED bp_processing
    ELSE /\ bp_queue' = q
         /\ bp_pc' = "idle"
         /\ UNCHANGED bp_processing

\* processQueue resumes after yield self._getNextMsg() (lines 483-489): the
\* message goes to consumer.write, that is BusPublisher.write / sendMessage.
\* client.send fails at once when the bus is not connected.
BP_getNextDone ==
    /\ sys = "bp"
    /\ bp_pc = "getnext"
    /\ LET src == BP_NextSource(bp_retry, bp_queue) IN
       IF src = "none"
       THEN /\ bp_pc' = "idle"
            /\ bp_processing' = FALSE
            /\ UNCHANGED <<bp_queue, bp_retry, bp_hand, pub_batch, pub_sending,
                           bp_last>>
       ELSE LET msg == IF src = "retry" THEN JsonLoads(StoreOldest(bp_retry))
                       ELSE Head(bp_queue)
                q1  == IF src = "queue" THEN Tail(bp_queue) ELSE bp_queue
                acc == PUB_accumulate(pub_batch, msg, pub_batchsize)
            IN  /\ bp_retry' = IF src = "retry" THEN StoreAfterPop(bp_retry)
                               ELSE bp_retry
                /\ pub_batch' = acc.batch
                /\ bp_last' = msg.id
                /\ IF acc.payload = <<>>
                   THEN /\ bp_queue' = q1
                        /\ UNCHANGED <<bp_pc, bp_processing, bp_hand, pub_sending>>
                   ELSE IF pub_initialized
                   THEN /\ bp_queue' = q1
                        /\ bp_pc' = "write"
                        /\ bp_hand' = msg
                        /\ pub_sending' = acc.payload
                        /\ UNCHANGED bp_processing
                   ELSE /\ \E hasValue \in BOOLEAN : BP_send_failed(msg, q1, hasValue)
                        /\ UNCHANGED <<bp_hand, pub_sending>>
    /\ lastop' = "-"
    /\ UNCHANGED <<sys, extvars, psfvars, stnvars, bp_maxq, bp_prodpaused, bp_paused, bp_dbinit,
                   bp_resumecb, bp_saving, pub_initialized, pub_batchsize,
                   bp_n, bp_delivered, bp_stopped>>

\* The bus acknowledges the send: consumer.write's Deferred fires and the loop
\* goes on (line 487).
BP_writeOk ==
    /\ sys = "bp"
    /\ bp_pc = "write"
    /\ bp_delivered' = bp_delivered \cup {pub_sending[i] : i \in 1..Len(pub_sending)}
    /\ pub_sending' = <<>>
    /\ bp_hand' = BP_NoMsg
    /\ bp_pc' = "getnext"
    /\ lastop' = "-"
    /\ UNCHANGED <<sys, extvars, psfvars, stnvars, bp_maxq, bp_prodpaused, bp_paused, bp_queue,
                   bp_retry, bp_dbinit, bp_resumecb, bp_processing, bp_saving,
                   pub_initialized, pub_batchsize, pub_batch, bp_n, bp_last,
                   bp_stopped>>

\* The send fails: consumer.write's Deferred fails (lines 488-489).
BP_writeFail ==
    /\ sys = "bp"
    /\ bp_pc = "write"
    /\ pub_sending' = <<>>
    /\ bp_hand' = BP_NoMsg
    /\ \E hasValue \in BOOLEAN : BP_send_failed(bp_hand, bp_queue, hasValue)
    /\ lastop' = "-"
    /\ UNCHANGED <<sys, extvars, psfvars, stnvars, bp_maxq, bp_prodpaused, bp_paused, bp_retry,
                   bp_dbinit, bp_resumecb, bp_saving, pub_initialized,
                   pub_batchsize, pub_batch, bp_n, bp_last, bp_delivered, bp_stopped>>

\* BackupProvider.__init__ and BusPublisher.__init__
BP_init(maxqs, batches) ==
    /\ bp_maxq \in maxqs
    /\ bp_paused = TRUE
    /\ bp_queue = <<>>
    /\ bp_retry = <<>>
    /\ bp_dbinit = FALSE
    /\ bp_resumecb = FALSE
    /\ bp_processing = FALSE
    /\ bp_pc = "idle"
    /\ bp_hand = BP_NoMsg
    /\ bp_saving = 0
    /\ pub_initialized = FALSE
    /\ pub_batchsize \in batches
    /\ pub_batch = <<>>
    /\ pub_sending = <<>>
    /\ bp_n = 0
    /\ bp_last = 0
    /\ bp_delivered = {}
    /\ bp_stopped = FALSE
    /\ bp_prodpaused = FALSE

NextBP ==
    \/ \E k \in Kinds : BP_write(k)
    \/ BP_saveDone
    \/ BP_startService
    \/ BP_connectionInitialized
    \/ BP_connectionLost
    \/ BP_stopService
    \/ BP_getNextDone
    \/ BP_writeOk
    \/ BP_writeFail

\* ------------------------------------------------------------ SocketToNodeForwarder
\* The forwarder's store, flag and bus traffic, as the handlers below change
\* them.
STN_State ==
    [store |-> stn_store, flag |-> stn_backuptoempty, inflight |-> stn_inflight,
     published |-> stn_published, delivered |-> stn_delivered,
     raised |-> FALSE]

\* The message types that have a destination node in nodetopublish.
STN_nodetopublish == {"event"}

\* SocketToNodeForwarder.publishXml(xml): the state afterwards and whether it
\* returned True.  Without a stream the message is stored and the method
\* returns None (lines 167-172); otherwise it is published (lines 180-185).
\* The lookup self.__nodetopublish[xml.name] (line 181) is outside the try: for
\* a type without a destination node KeyError leaves publishXml.
STN_publishXml(st, xml, conn) ==
    IF ~conn
    THEN [st  |-> [st EXCEPT !.store = StorePut(@, ToXml(xml))],
          ret |-> FALSE]
    ELSE IF xml.kind \notin STN_nodetopublish
    THEN [st  |-> [st EXCEPT !.raised = TRUE],
          ret |-> FALSE]
    ELSE [st  |-> [st EXCEPT !.inflight = @ \cup {xml},
                             !.published = Append(@, xml.id)],
          ret |-> TRUE]

\* SocketToNodeForwarder.sendOneToOneXml(xml): a chat message has no reply.
STN_sendOneToOneXml(st, xml, conn) ==
    IF ~conn
    THEN [st  |-> [st EXCEPT !.store = StorePut(@, ToXml(xml)), !.flag = TRUE],
          ret |-> FALSE]
    ELSE [st  |-> [st EXCEPT !.published = Append(@, xml.id),
                             !.delivered = @ \cup {xml.id}],
          ret |-> TRUE]

\* Forwarder.lineReceived, lines 50-53, and sendQueuedMessages, lines 109-118.
STN_dispatch(st, xml, conn) ==
    IF xml.kind = "oneToOne" THEN STN_sendOneToOneXml(st, xml, conn)
    ELSE STN_publishXml(st, xml, conn)

\* The loop of sendQueuedMessages (lines 103-118); an exception raised by
\* publishXml leaves the loop, and sendQueuedMessages, at once.
RECURSIVE STN_replay(_, _)
STN_replay(st, conn) ==
    IF st.store = <<>> THEN st
    ELSE LET r == STN_dispatch([st EXCEPT !.store = StoreAfterPop(@)],
                               ParseXml(StoreOldest(st.store)), conn)
         IN  IF r.st.raised THEN r.st
             ELSE IF r.ret THEN STN_replay(r.st, conn)
             ELSE [r.st EXCEPT !.flag = TRUE]

\* A replay that would send the oldest stored message and leave it in the
\* store.
STN_sendQueuedMessages_peek(st, conn) ==
    IF st.flag /\ st.store # <<>>
    THEN STN_dispatch([st EXCEPT !.flag = FALSE],
                      ParseXml(StoreOldest(st.store)), conn).st
    ELSE st

\* SocketToNodeForwarder.sendQueuedMessages
STN_sendQueuedMessages(st, conn) ==
    IF st.flag THEN STN_replay([st EXCEPT !.flag = FALSE], conn) ELSE st

STN_Set(st) ==
    /\ stn_store' = st.store
    /\ stn_backuptoempty' = st.flag
    /\ stn_inflight' = st.inflight
    /\ stn_published' = st.published
    /\ stn_delivered' = st.delivered
    /\ stn_raised' = st.raised

\* Forwarder.lineReceived(line) for a line that parses to a message of kind k.
STN_lineReceived(k) ==
    /\ sys = "stn"
    /\ stn_n < MaxMsgs
    /\ stn_n' = stn_n + 1
    /\ STN_Set(STN_dispatch(STN_State, Msg(stn_n + 1, k), stn_connected).st)
    /\ lastop' = "-"
    /\ UNCHANGED <<sys, extvars, psfvars, bpvars, stn_connected, stn_nfail>>

\* SocketToNodeForwarder.connectionInitialized
STN_connectionInitialized ==
    /\ sys = "stn"
    /\ ~stn_connected
    /\ stn_connected' = TRUE
    /\ STN_Set(STN_sendQueuedMessages(STN_State, TRUE))
    /\ lastop' = "connectionInitialized"
    /\ UNCHANGED <<sys, extvars, psfvars, bpvars, stn_n, stn_nfail>>

\* PubSubClient.connectionLost: the stream is gone.
STN_connectionLost ==
    /\ sys = "stn"
    /\ stn_connected
    /\ stn_connected' = FALSE
    /\ stn_raised' = FALSE
    /\ lastop' = "-"
    /\ UNCHANGED <<sys, extvars, psfvars, bpvars, stn_store, stn_backuptoempty,
                   stn_inflight, stn_n, stn_published, stn_delivered, stn_nfail>>

\* The bus acknowledges the publish of xml.
STN_publishOk(xml) ==
    /\ sys = "stn"
    /\ xml \in stn_inflight
    /\ stn_inflight' = stn_inflight \ {xml}
    /\ stn_delivered' = stn_delivered \cup {xml.id}
    /\ stn_raised' = FALSE
    /\ lastop' = "-"
    /\ UNCHANGED <<sys, extvars, psfvars, bpvars, stn_connected, stn_store,
                   stn_backuptoempty, stn_n, stn_published, stn_nfail>>

\* eb, the errback of publishXml (lines 174-178): the message is stored again.
STN_publishFail(xml) ==
    /\ sys = "stn"
    /\ xml \in stn_inflight
    /\ stn_nfail < MaxFaults
    /\ stn_nfail' = stn_nfail + 1
    /\ stn_inflight' = stn_inflight \ {xml}
    /\ stn_store' = StorePut(stn_store, ToXml(xml))
    /\ stn_backuptoempty' = TRUE
    /\ stn_raised' = FALSE
    /\ lastop' = "-"
    /\ UNCHANGED <<sys, extvars, psfvars, bpvars, stn_connected, stn_n, stn_published,
                   stn_delivered>>

\* SocketToNodeForwarder.__init__: __backuptoempty is os.path.exists(dbfilename),
\* which depends on the file system at construction.
STN_init ==
    /\ stn_connected = FALSE
    /\ stn_store = <<>>
    /\ stn_backuptoempty \in BOOLEAN
    /\ stn_inflight = {}
    /\ stn_n = 0
    /\ stn_published = <<>>
    /\ stn_delivered = {}
    /\ stn_nfail = 0
    /\ stn_raised = FALSE

\* The kinds of the lines received: oneToOne is sent as a chat message, and
\* state is a type for which no destination node is configured.
LineKinds == {"event", "oneToOne", "state"}

NextSTN ==
    \/ \E k \in LineKinds : STN_lineReceived(k)
    \/ STN_connectionInitialized
    \/ STN_connectionLost
    \/ \E xml \in stn_inflight : STN_publishOk(xml)
    \/ \E xml \in stn_inflight : STN_publishFail(xml)

\* ------------------------------------------------------------ the receiving side
\* Number of bus messages a behaviour delivers to a handler.
MaxDeliveries == 2
\* Number of children of the largest aggregate delivered.
MaxChildren == 2
\* The payload ids of the messages delivered.
RcvIds == {1, 2}

\* A message as the bus carries it: its payload id, its type, the children it
\* wraps (none for a message that is not an aggregate; an absent "messages"
\* and an empty one are the same to the code), and its form (str = TRUE for
\* the serialized text).
RMsg(i, k) == [id |-> i, kind |-> k, messages |-> <<>>, str |-> FALSE]

\* BusPublisher._accumulate_perf_msgs, lines 356-357: the aggregate of the
\* buffered messages.
PUB_batch(msgs) == [id |-> 0, kind |-> "perf", messages |-> msgs, str |-> FALSE]

\* PubSubSender._accumulate_perf_msgs, lines 322-324: the perfs element with
\* the buffered messages as children.
PSS_batch(msgs) == [id |-> 0, kind |-> "perfs", messages |-> msgs, str |-> FALSE]

\* The sequences of at most n elements of S.
SeqUpTo(S, n) == UNION {[1..k -> S] : k \in 0..n}

\* The batches a sender makes: at least one message, at most n.
Batches(S, n) == SeqUpTo(S, n) \ {<<>>}

\* The perf messages a sender batches.
RcvPerfs == {RMsg(i, "perf") : i \in RcvIds}

\* What the bus delivers: single messages and aggregates.
RcvSingles == {RMsg(i, k) : i \in RcvIds, k \in Kinds}

\* A _processList that would take the children from the end of the list.
MH_pop_last(msglist) ==
    [msg |-> msglist[Len(msglist)], rest |-> SubSeq(msglist, 1, Len(msglist) - 1)]

\* msglist.pop(0) in _processList (line 176).
MH_pop(msglist) == [msg |-> Head(msglist), rest |-> Tail(msglist)]

\* A handler that would acknowledge a message whose processing failed.
MH_processingFailed_acking(acks, msg) == Append(acks, msg.tag)

\* MessageHandler.processingFailed (lines 187-188): the error is logged.
MH_processingFailed(acks, msg) == acks

\* MessageHandler.processingSucceeded (lines 184-185): producer.ack(msg).
MH_processingSucceeded(acks, msg) == Append(acks, msg.tag)

MH_NoMsg == [tag |-> 0, body |-> JsonDumps(RMsg(0, "none"))]

\* MessageHandler.write(msg), lines 160-165, up to the first processMessage:
\* the body is parsed; a content with a non-empty "messages" goes to
\* _processList, which takes the first child; any other content is processed
\* as it is.  c is the content the sender serialized.
MH_write(c) ==
    /\ sys = "mh"
    /\ mh_pc = "idle"
    /\ mh_n < MaxDeliveries
    /\ mh_n' = mh_n + 1
    /\ LET msg     == [tag |-> mh_n + 1, body |-> JsonDumps(c)]
           content == JsonLoads(msg.body)
       IN  /\ mh_msg' = msg
           /\ mh_received' = Append(mh_received, c)
           /\ IF content.messages # <<>>
              THEN /\ mh_processed' = Append(mh_processed, MH_pop(content.messages).msg)
                   /\ mh_list' = MH_pop(content.messages).rest
                   /\ mh_pc' = "list"
              ELSE /\ mh_processed' = Append(mh_processed, content)
                   /\ mh_list' = <<>>
                   /\ mh_pc' = "single"
    /\ UNCHANGED <<sys, fwdvars, busvars, ntsvars, txvars, smvars, dbvars, mh_acks,
                   mh_failed, psl_queue, psl_received>>

\* processMessage has succeeded: _processList goes on with the next child
\* (lines 175-177); after the last one, or for a single message, the callback
\* processingSucceeded acknowledges the bus message (lines 166-167).
MH_processOk ==
    /\ sys = "mh"
    /\ mh_pc # "idle"
    /\ IF mh_pc = "list" /\ mh_list # <<>>
       THEN /\ mh_processed' = Append(mh_processed, MH_pop(mh_list).msg)
            /\ mh_list' = MH_pop(mh_list).rest
            /\ UNCHANGED <<mh_pc, mh_msg, mh_acks>>
       ELSE /\ mh_acks' = MH_processingSucceeded(mh_acks, mh_msg)
            /\ mh_pc' = "idle"
            /\ mh_msg' = MH_NoMsg
            /\ UNCHANGED <<mh_processed, mh_list>>
    /\ UNCHANGED <<sys, fwdvars, busvars, ntsvars, txvars, smvars, dbvars, mh_n,
                   mh_received, mh_failed, psl_queue, psl_received>>

\* processMessage has failed: the failure leaves _processList, whatever is
\* left of the list, and the errback processingFailed runs.
MH_processFail ==
    /\ sys = "mh"
    /\ mh_pc # "idle"
    /\ mh_acks' = MH_processingFailed(mh_acks, mh_msg)
    /\ mh_failed' = mh_failed \cup {mh_msg.tag}
    /\ mh_pc' = "idle"
    /\ mh_msg' = MH_NoMsg
    /\ mh_list' = <<>>
    /\ UNCHANGED <<sys, fwdvars, busvars, ntsvars, txvars, smvars, dbvars, mh_n,
                   mh_received, mh_processed, psl_queue, psl_received>>

\* PubSubListener.chatReceived, lines 394-398, and itemsReceived, lines
\* 415-419: forwardMessage for every child of a perfs element, or for the
\* element itself.
PSL_forward(queue, data) ==
    IF data.kind = "perfs" THEN queue \o data.messages
    ELSE Append(queue, data)

\* PubSubListener.itemsReceived(event) for an event of one item, named name,
\* carrying the payload the sender serialized.
PSL_itemsReceived(name, data) ==
    /\ sys = "psl"
    /\ Len(psl_received) < MaxDeliveries
    /\ IF name # "item"
       THEN UNCHANGED psl_queue
       ELSE psl_queue' = PSL_forward(psl_queue, ParseXml(ToXml(data)))
    /\ psl_received' = Append(psl_received, [name |-> name, data |-> data])
    /\ UNCHANGED <<sys, fwdvars, busvars, ntsvars, txvars, smvars, dbvars, mh_pc, mh_msg,
                   mh_list, mh_n, mh_received, mh_processed, mh_acks, mh_failed>>

\* PubSubListener.chatReceived(msg) for a chat whose body carries one payload.
PSL_chatReceived(data) ==
    /\ sys = "psl"
    /\ Len(psl_received) < MaxDeliveries
    /\ psl_queue' = PSL_forward(psl_queue, ParseXml(ToXml(data)))
    /\ psl_received' = Append(psl_received, [name |-> "chat", data |-> data])
    /\ UNCHANGED <<sys, fwdvars, busvars, ntsvars, txvars, smvars, dbvars, mh_pc, mh_msg,
                   mh_list, mh_n, mh_received, mh_processed, mh_acks, mh_failed>>

\* MessageHandler.__init__ and PubSubListener.__init__
RCV_init ==
    /\ mh_pc = "idle"
    /\ mh_msg = MH_NoMsg
    /\ mh_list = <<>>
    /\ mh_n = 0
    /\ mh_received = <<>>
    /\ mh_processed = <<>>
    /\ mh_acks = <<>>
    /\ mh_failed = {}
    /\ psl_queue = <<>>
    /\ psl_received = <<>>

\* What a BusPublisher sends to a MessageHandler, and a PubSubSender to a
\* PubSubListener.
MH_Contents == RcvSingles \cup {PUB_batch(ch) : ch \in Batches(RcvPerfs, MaxChildren)}

PSL_Contents == RcvSingles \cup {PSS_batch(ch) : ch \in Batches(RcvPerfs, MaxChildren)}

NextRcv ==
    \/ \E c \in MH_Contents : MH_write(c)
    \/ MH_processOk
    \/ MH_processFail
    \/ \E name \in {"item", "retract"}, data \in PSL_Contents :
          PSL_itemsReceived(name, data)
    \/ \E data \in PSL_Contents : PSL_chatReceived(data)

\* ------------------------------------------------------------ NodeToSocketForwarder
\* Number of pubsub events a behaviour delivers to the forwarder.
MaxEvents == 4

\* What transport.write is given: the payload, and whether it comes from the
\* backup (unstockmessage) or from the item just received.
NTS_Written(payload, from) == [msg |-> payload, from |-> from]

\* The loop of unstockmessage(filename, write), lines 67-68: every stored
\* message is given to write, oldest first, until none is left.
RECURSIVE NTS_unstockAll(_, _)
NTS_unstockAll(store, written) ==
    IF StoreSize(store) = 0 THEN written
    ELSE NTS_unstockAll(StoreAfterPop(store),
                        Append(written, NTS_Written(StoreOldest(store), "backup")))

\* A forwarder that would write the item before the backlog.
NTS_forward_itemFirst(st, item, conn) ==
    IF conn
    THEN [store   |-> IF st.flag THEN <<>> ELSE st.store,
          flag    |-> FALSE,
          written |-> IF st.flag
                      THEN NTS_unstockAll(st.store,
                               Append(st.written, NTS_Written(ToXml(item), "bus")))
                      ELSE Append(st.written, NTS_Written(ToXml(item), "bus"))]
    ELSE [store   |-> StorePut(st.store, ToXml(item)),
          flag    |-> TRUE,
          written |-> st.written]

\* NodeToSocketForwarder.itemsReceived, lines 63-80, for one item: on a
\* connected socket the backup is written first when __backuptoempty is set,
\* then the item; otherwise the item is stored and the flag set.
NTS_forward(st, item, conn) ==
    IF conn
    THEN [store   |-> IF st.flag THEN <<>> ELSE st.store,
          flag    |-> FALSE,
          written |-> Append(IF st.flag THEN NTS_unstockAll(st.store, st.written)
                             ELSE st.written,
                             NTS_Written(ToXml(item), "bus"))]
    ELSE [store   |-> StorePut(st.store, ToXml(item)),
          flag    |-> TRUE,
          written |-> st.written]

\* NodeToSocketForwarder.itemsReceived(event) for an event of one item named
\* name; node tells whether the event is of the subscribed node (line 48).
\* The two tests that make itemsReceived skip an entry: the event is for
\* another node (lines 48-49), or the entry is not an 'item' (lines 58-62).
NTS_Ignored_nameOnly(name, node) == name # "item"

NTS_Ignored(name, node) == ~node \/ name # "item"

NTS_itemsReceived(name, node) ==
    /\ sys = "nts"
    /\ nts_n < MaxEvents
    /\ nts_n' = nts_n + 1
    /\ IF NTS_Ignored(name, node)
       THEN UNCHANGED <<nts_store, nts_backuptoempty, nts_written, nts_arrived>>
       ELSE LET r == NTS_forward([store |-> nts_store, flag |-> nts_backuptoempty,
                                  written |-> nts_written],
                                 Elem(nts_n + 1), nts_connected)
            IN  /\ nts_store' = r.store
                /\ nts_backuptoempty' = r.flag
                /\ nts_written' = r.written
                /\ nts_arrived' = Append(nts_arrived, nts_n + 1)
    /\ UNCHANGED <<sys, fwdvars, busvars, rcvvars, txvars, smvars, dbvars, nts_connected>>

\* The socket connects (ReconnectingClientFactory, lines 36-40).
NTS_connectionMade ==
    /\ sys = "nts"
    /\ ~nts_connected
    /\ nts_connected' = TRUE
    /\ UNCHANGED <<sys, fwdvars, busvars, rcvvars, txvars, smvars, dbvars, nts_store,
                   nts_backuptoempty, nts_n, nts_arrived, nts_written>>

\* The socket closes.
NTS_connectionLost ==
    /\ sys = "nts"
    /\ nts_connected
    /\ nts_connected' = FALSE
    /\ UNCHANGED <<sys, fwdvars, busvars, rcvvars, txvars, smvars, dbvars, nts_store,
                   nts_backuptoempty, nts_n, nts_arrived, nts_written>>

\* NodeToSocketForwarder.__init__: __backuptoempty is os.path.exists of the
\* backup file.
NTS_init(flags) ==
    /\ nts_connected = FALSE
    /\ nts_store = <<>>
    /\ nts_backuptoempty \in flags
    /\ nts_n = 0
    /\ nts_arrived = <<>>
    /\ nts_written = <<>>

NextNTS ==
    \/ \E name \in {"item", "retract"}, node \in BOOLEAN :
          NTS_itemsReceived(name, node)
    \/ NTS_connectionMade
    \/ NTS_connectionLost

\* ------------------------------------------------------------ converttoxml
\* Number of fields after the kind in the longest line given to text2xml.
MaxFields == 7

\* A line is a string of bytes.  A token stands for the bytes of one piece of
\* text in one encoding: the separator, a blank, a word, or an accented
\* letter, whose bytes differ between UTF-8 and ISO-8859-15.
Tok(ch, enc) == [ch |-> ch, enc |-> enc]

Bar == Tok("|", "ascii")

Blank == Tok(" ", "ascii")

Word(w) == <<Tok(w, "ascii")>>

\* The bytes of a piece of text in an encoding: ASCII text has the same bytes
\* in both.
Encode(text, enc) ==
    [i \in 1..Len(text) |->
        IF text[i] = "accented" THEN Tok("accented", enc) ELSE Tok(text[i], "ascii")]

\* '|'.join(fields)
RECURSIVE JoinBar(_)
JoinBar(fields) ==
    IF Len(fields) = 0 THEN <<>>
    ELSE IF Len(fields) = 1 THEN fields[1]
    ELSE fields[1] \o <<Bar>> \o JoinBar(Tail(fields))

\* text.split('|'): the fields between the separators; a string without a
\* separator, the empty one too, is one field.
RECURSIVE SplitBar(_, _)
SplitBar(bytes, cur) ==
    IF Len(bytes) = 0 THEN <<cur>>
    ELSE IF Head(bytes) = Bar THEN <<cur>> \o SplitBar(Tail(bytes), <<>>)
    ELSE SplitBar(Tail(bytes), Append(cur, Head(bytes)))

\* text.strip(): the blanks at both ends are removed.
RECURSIVE Strip(_)
Strip(bytes) ==
    IF Len(bytes) = 0 THEN bytes
    ELSE IF Head(bytes) = Blank THEN Strip(Tail(bytes))
    ELSE IF bytes[Len(bytes)] = Blank THEN Strip(SubSeq(bytes, 1, Len(bytes) - 1))
    ELSE bytes

\* What text2xml gives: None, an exception, or an element with its name, the
\* recipient of the oneToOne envelope around it (empty without envelope) and
\* its children in order.
TX_None == [res |-> "none", name |-> "", to |-> <<>>, wrapped |-> FALSE,
            children |-> <<>>]

TX_Element(name, children) ==
    [res |-> "msg", name |-> name, to |-> <<>>, wrapped |-> FALSE,
     children |-> children]

TX_Child(tag, content) == [tag |-> tag, content |-> content]

\* An event2xml that would not look at the number of fields it is given.
event2xml_unchecked(event_list) ==
    TX_Element("event",
        [i \in 1..(Len(event_list) - 1) |->
            TX_Child(IF i <= 5
                     THEN <<"timestamp", "host", "service", "state", "message">>[i]
                     ELSE "extra",
                     event_list[i + 1])])

\* event2xml (lines 95-117)
event2xml(event_list) ==
    IF Len(event_list) # 6 THEN TX_None
    ELSE TX_Element("event",
            <<TX_Child("timestamp", event_list[2]),
              TX_Child("host", event_list[3]),
              TX_Child("service", event_list[4]),
              TX_Child("state", event_list[5]),
              TX_Child("message", event_list[6])>>)

\* perf2xml (lines 120-141)
perf2xml(perf_list) ==
    IF Len(perf_list) # 5 THEN TX_None
    ELSE TX_Element("perf",
            <<TX_Child("timestamp", perf_list[2]),
              TX_Child("host", perf_list[3]),
              TX_Child("datasource", perf_list[4]),
              TX_Child("value", perf_list[5])>>)

\* downtime2xml (lines 144-167)
downtime2xml(downtime_list) ==
    IF Len(downtime_list) # 7 THEN TX_None
    ELSE TX_Element("downtime",
            <<TX_Child("timestamp", downtime_list[2]),
              TX_Child("host", downtime_list[3]),
              TX_Child("service", downtime_list[4]),
              TX_Child("type", downtime_list[5]),
              TX_Child("author", downtime_list[6]),
              TX_Child("comment", downtime_list[7])>>)

\* text2xml, lines 47-50: the command element; elements[1] of a list of one
\* element raises IndexError, which the except clause of line 63 does not
\* catch.
command2xml(elements) ==
    IF Len(elements) < 2 THEN [TX_None EXCEPT !.res = "IndexError"]
    ELSE TX_Element("command",
            <<TX_Child("@type", elements[2]),
              TX_Child("#text", JoinBar(SubSeq(elements, 3, Len(elements))))>>)

\* text2xml, lines 39-53: the message of the elements left after the envelope.
TX_dispatch(elements) ==
    IF elements = <<<<>>>> THEN TX_None
    ELSE IF elements[1] = Word("event") THEN event2xml(elements)
    ELSE IF elements[1] = Word("perf") THEN perf2xml(elements)
    ELSE IF elements[1] = Word("downtime") THEN downtime2xml(elements)
    ELSE IF elements[1] = Word("command") THEN command2xml(elements)
    ELSE TX_None

\* text2xml(text), lines 30-69.  The bytes of the fields go into the element
\* as they are: nothing decodes them.
text2xml(text) ==
    LET elements == SplitBar(Strip(text), <<>>) IN
    IF Len(elements) > 2 /\ elements[1] = Word("oneToOne")
    THEN LET msg == TX_dispatch(SubSeq(elements, 3, Len(elements))) IN
         IF msg.res = "msg"
         THEN [msg EXCEPT !.wrapped = TRUE, !.to = elements[2]]
         ELSE msg
    ELSE TX_dispatch(elements)

\* A line given to text2xml: an optional oneToOne envelope, a first field,
\* the fields after it, an optional trailing blank, in one of the two
\* encodings.
TX_Line(env, head, fields, blank, enc) ==
    [env |-> env, head |-> head, fields |-> fields, blank |-> blank, enc |-> enc]

\* The bytes of a line.
TX_Bytes(line) ==
    JoinBar((IF line.env THEN <<Word("oneToOne"), Word("addr")>> ELSE <<>>)
            \o <<IF line.head = "" THEN <<>> ELSE Word(line.head)>>
            \o [i \in 1..Len(line.fields) |-> Encode(line.fields[i], line.enc)])
    \o (IF line.blank THEN <<Blank>> ELSE <<>>)

\* The lines explored: the first field is a kind, an unknown word or empty;
\* a field after it is empty, plain or accented.
TX_Lines ==
    {TX_Line(env, head, fields, blank, enc) :
        env \in BOOLEAN,
        head \in {"event", "perf", "downtime", "command", "azerty", ""},
        fields \in SeqUpTo({<<>>, <<"a">>, <<"accented">>}, MaxFields),
        blank \in BOOLEAN, enc \in {"utf8", "latin9"}}

TX_NoLine == TX_Line(FALSE, "", <<>>, FALSE, "utf8")

TX_NotCalled == [TX_None EXCEPT !.res = "-"]

\* text2xml is called with the line.
TX_call ==
    /\ sys = "tx"
    /\ tx_out = TX_NotCalled
    /\ tx_out' = text2xml(TX_Bytes(tx_line))
    /\ UNCHANGED <<sys, fwdvars, busvars, rcvvars, ntsvars, smvars, dbvars, tx_line>>

TX_init(lines) ==
    /\ tx_line \in lines
    /\ tx_out = TX_NotCalled

\* ------------------------------------------------- BusPublisher.sendMessage
\* The values a key of a message can hold: absent, a text, a number, a
\* boolean.  `text` is what str() gives for the value.
Json(kind, text) == [json |-> kind, text |-> text]

Absent == Json("absent", "")

\* msg.get(key, default)
DictGet(value, default) == IF value = Absent THEN default ELSE value

\* str(value)
Str(value) == value.text

SM_Types == {"event", "perf", "state"}

\* The messages given to sendMessage: the routing key is absent, a text or a
\* number, the persistent key absent, true or false.
SM_Msgs ==
    {[type |-> t, routing_key |-> rk, persistent |-> p] :
        t \in SM_Types,
        rk \in {Absent, Json("string", "all"), Json("number", "7")},
        p \in {Absent, Json("boolean", "True"), Json("boolean", "False")}}

\* self._publications: the types that have a configured exchange, which is
\* named exchange-<type>.
SM_Publications == SUBSET SM_Types

\* VigiloClient.send(exchange, routing_key, message, persistent): the frame
\* published, persistent messages with delivery-mode 2, the others with 1.
ClientSend(exchange, routing_key, persistent) ==
    [exchange |-> exchange, routing_key |-> routing_key,
     delivery_mode |-> IF persistent THEN 2 ELSE 1]

\* if persistent: the truth value of what msg.get("persistent", True) gave.
Truth(value) == value.text = "True"

\* A sendMessage that would publish to the exchange named by the type
\* whatever is configured.
SM_exchange_typeOnly(publications, msg) == Json("string", msg.type)

\* sendMessage, lines 337-340
SM_exchange(publications, msg) ==
    IF msg.type \in publications THEN Json("string", "exchange-" \o msg.type)
    ELSE Json("string", msg.type)

\* sendMessage, lines 342-344
SM_sendMessage(publications, msg) ==
    LET exchange == SM_exchange(publications, msg)
        routing_key == DictGet(msg.routing_key, Json("string", msg.type))
        persistent == DictGet(msg.persistent, Json("boolean", "True"))
    IN  ClientSend(Str(exchange), Str(routing_key), Truth(persistent))

SM_NotSent == [exchange |-> "", routing_key |-> "", delivery_mode |-> 0]

SM_NoMsg == [type |-> "event", routing_key |-> Absent, persistent |-> Absent]

\* BusPublisher.sendMessage(msg) with batch_send_perf = 1: the counter is
\* incremented (line 329) and the message published.
SM_send(msg) ==
    /\ sys = "sm"
    /\ pub_sent < MaxMsgs
    /\ pub_sent' = pub_sent + 1
    /\ sm_msg' = msg
    /\ sm_sent' = SM_sendMessage(sm_publications, msg)
    /\ UNCHANGED <<sys, fwdvars, busvars, rcvvars, ntsvars, txvars, dbvars, sm_publications>>

\* BusPublisher.connectionInitialized, line 261: the counter is reset.
SM_connectionInitialized ==
    /\ sys = "sm"
    /\ pub_sent' = 0
    /\ UNCHANGED <<sys, fwdvars, busvars, rcvvars, ntsvars, txvars, dbvars, sm_msg,
                   sm_publications, sm_sent>>

\* BusPublisher.__init__
SM_init(pubs) ==
    /\ sm_msg = SM_NoMsg
    /\ sm_publications \in pubs
    /\ sm_sent = SM_NotSent
    /\ pub_sent = 0

NextSM ==
    \/ \E msg \in SM_Msgs : SM_send(msg)
    \/ SM_connectionInitialized

\* ------------------------------------------------------- DbRetry, as tested
\* Number of gets of a behaviour.
MaxGets == 5

\* test_retrieval stores with put and reads back with get; here the puts and
\* the gets come in any order.  db_got lists what the gets returned: the id
\* of a row, or 0 for None.
DB_put ==
    /\ sys = "db"
    /\ db_nput < MaxMsgs
    /\ db_nput' = db_nput + 1
    /\ db_store' = StorePut(db_store, Msg(db_nput + 1, "bus"))
    /\ UNCHANGED <<sys, fwdvars, busvars, rcvvars, ntsvars, txvars, smvars, db_got>>

\* What a get gives back to its caller.
DB_result_newest(store) ==
    IF StoreSize(store) = 0 THEN 0 ELSE store[Len(store)].id

DB_result(store) ==
    IF StoreSize(store) = 0 THEN 0 ELSE StoreOldest(store).id

DB_get ==
    /\ sys = "db"
    /\ Len(db_got) < MaxGets
    /\ db_got' = Append(db_got, DB_result(db_store))
    /\ db_store' = IF StoreSize(db_store) = 0 THEN db_store
                   ELSE StoreAfterPop(db_store)
    /\ UNCHANGED <<sys, fwdvars, busvars, rcvvars, ntsvars, txvars, smvars, db_nput>>

DB_init ==
    /\ db_store = <<>>
    /\ db_nput = 0
    /\ db_got = <<>>

NextDB == DB_put \/ DB_get

\* ------------------------------------------------------------ QueueSubscriber / MessageHandler
\* Number of fetches and writes that can be outstanding together.
MaxFetches == 2

\* QueueSubscriber.resumeProducing, lines 119-133: the number of outstanding
\* queue.get() afterwards.  Without a queue the call returns a failed Deferred
\* and fetches nothing.
QS_resumeProducing(queue, gets) == IF queue THEN gets + 1 ELSE gets

\* MessageHandler.registerProducer, lines 221-226: the producer is set and a
\* call of producer.resumeProducing is added to the Deferred that
\* producer.ready is at that time; it runs at once when that one has fired.
MH_registerProducer ==
    /\ sys = "qs"
    /\ ~qs.producer
    /\ qs' = IF qs.readyfired
             THEN [qs EXCEPT !.producer = TRUE,
                             !.gets = QS_resumeProducing(qs.queue, qs.gets)]
             ELSE [qs EXCEPT !.producer = TRUE, !.readycb = TRUE]
    /\ UNCHANGED <<sys, fwdvars, rcvvars, ntsvars, txvars, smvars, dbvars, reg>>

\* QueueSubscriber.connectionInitialized, lines 71-76: the channel is taken
\* and the queue is declared, bound and subscribed to.
QS_connectionInitialized ==
    /\ sys = "qs"
    /\ ~qs.channel
    /\ qs' = [qs EXCEPT !.channel = TRUE, !.subscribing = TRUE]
    /\ UNCHANGED <<sys, fwdvars, rcvvars, ntsvars, txvars, smvars, dbvars, reg>>

\* The end of _subscribe, lines 109-115: store_queue sets _queue and
\* self.ready is called back, which runs the callbacks it carries.
QS_subscribed ==
    /\ sys = "qs"
    /\ qs.subscribing
    /\ qs' = [qs EXCEPT !.subscribing = FALSE,
                        !.queue = TRUE,
                        !.readyfired = TRUE,
                        !.gets = IF qs.readycb
                                 THEN QS_resumeProducing(TRUE, qs.gets)
                                 ELSE qs.gets]
    /\ UNCHANGED <<sys, fwdvars, rcvvars, ntsvars, txvars, smvars, dbvars, reg>>

\* QueueSubscriber.connectionLost, lines 78-81: channel and queue are dropped
\* and self.ready is replaced by a new Deferred, which carries no callback.
\* The get() that was outstanding fails with Closed, which eb traps (lines
\* 130-131); the operations of a subscription in progress fail with the
\* channel.
QS_connectionLost ==
    /\ sys = "qs"
    /\ qs.channel
    /\ qs' = [qs EXCEPT !.channel = FALSE,
                        !.subscribing = FALSE,
                        !.queue = FALSE,
                        !.readyfired = FALSE,
                        !.readycb = FALSE,
                        !.gets = 0]
    /\ UNCHANGED <<sys, fwdvars, rcvvars, ntsvars, txvars, smvars, dbvars, reg>>

\* A get() fires with a message: cb gives it to consumer.write (lines
\* 124-129).  MessageHandler.write starts the processing and, when
\* keepProducing is set at that time, adds the call of
\* producer.resumeProducing to its Deferred (lines 160-170).
QS_cb ==
    /\ sys = "qs"
    /\ qs.gets > 0
    /\ qs.n < MaxMsgs
    /\ qs' = [qs EXCEPT !.n = @ + 1,
                        !.gets = @ - 1,
                        !.writes = Append(@, qs.keepProducing)]
    /\ UNCHANGED <<sys, fwdvars, rcvvars, ntsvars, txvars, smvars, dbvars, reg>>

\* The processing of the i-th write in progress ends, well or not: its
\* Deferred runs processingSucceeded or processingFailed, then the call of
\* producer.resumeProducing if it carries one (lines 167-169).
MH_writeDone(i) ==
    /\ sys = "qs"
    /\ i \in 1..Len(qs.writes)
    /\ qs' = [qs EXCEPT !.writes = SubSeq(@, 1, i - 1)
                                       \o SubSeq(@, i + 1, Len(@)),
                        !.gets = IF qs.writes[i]
                                 THEN QS_resumeProducing(qs.queue, qs.gets)
                                 ELSE qs.gets]
    /\ UNCHANGED <<sys, fwdvars, rcvvars, ntsvars, txvars, smvars, dbvars, reg>>

\* MessageHandler.pauseProducing, lines 191-192.
MH_pauseProducing ==
    /\ sys = "qs"
    /\ qs.keepProducing
    /\ qs' = [qs EXCEPT !.keepProducing = FALSE]
    /\ UNCHANGED <<sys, fwdvars, rcvvars, ntsvars, txvars, smvars, dbvars, reg>>

\* MessageHandler.resumeProducing, lines 194-196.
MH_resumeProducing ==
    /\ sys = "qs"
    /\ qs.producer
    /\ qs.gets + Len(qs.writes) < MaxFetches
    /\ qs' = [qs EXCEPT !.keepProducing = TRUE,
                        !.gets = QS_resumeProducing(qs.queue, qs.gets)]
    /\ UNCHANGED <<sys, fwdvars, rcvvars, ntsvars, txvars, smvars, dbvars, reg>>

NextQS ==
    \/ MH_registerProducer
    \/ QS_connectionInitialized
    \/ QS_subscribed
    \/ QS_connectionLost
    \/ QS_cb
    \/ \E i \in 1..MaxFetches : MH_writeDone(i)
    \/ MH_pauseProducing
    \/ MH_resumeProducing

\* ------------------------------------------------------------ BusPublisher and its producer
\* A registerProducer that would leave the producer as it is.
PUB_registerProducer_silent(initialized, paused) == paused

\* BusPublisher.registerProducer, lines 296-301: the paused flag of the
\* BackupProvider afterwards (resumeProducing, line 460, when connected).
PUB_registerProducer(initialized, paused) ==
    IF initialized THEN FALSE ELSE paused

\* BusPublisher.registerProducer(provider, True)
REG_registerProducer ==
    /\ sys = "reg"
    /\ ~reg.producer
    /\ reg' = [reg EXCEPT !.producer = TRUE,
                          !.paused = PUB_registerProducer(reg.initialized, @)]
    /\ UNCHANGED <<sys, fwdvars, rcvvars, ntsvars, txvars, smvars, dbvars, qs>>

\* BusPublisher.unregisterProducer, lines 303-305: the producer is paused
\* (BackupProvider.pauseProducing, line 453) and forgotten.
REG_unregisterProducer ==
    /\ sys = "reg"
    /\ reg.producer
    /\ reg' = [reg EXCEPT !.paused = TRUE, !.producer = FALSE]
    /\ UNCHANGED <<sys, fwdvars, rcvvars, ntsvars, txvars, smvars, dbvars, qs>>

\* BusPublisher.connectionInitialized, lines 254-263: the producer, if any,
\* is resumed.
REG_connectionInitialized ==
    /\ sys = "reg"
    /\ ~reg.initialized
    /\ reg' = [reg EXCEPT !.initialized = TRUE,
                          !.paused = IF reg.producer THEN FALSE ELSE @]
    /\ UNCHANGED <<sys, fwdvars, rcvvars, ntsvars, txvars, smvars, dbvars, qs>>

\* BusPublisher.connectionLost, lines 266-277: the producer, if any, is
\* paused.
REG_connectionLost ==
    /\ sys = "reg"
    /\ reg.initialized
    /\ reg' = [reg EXCEPT !.initialized = FALSE,
                          !.paused = IF reg.producer THEN TRUE ELSE @]
    /\ UNCHANGED <<sys, fwdvars, rcvvars, ntsvars, txvars, smvars, dbvars, qs>>

NextReg ==
    \/ REG_registerProducer
    \/ REG_unregisterProducer
    \/ REG_connectionInitialized
    \/ REG_connectionLost

\* QueueSubscriber.__init__, MessageHandler.__init__, BusPublisher.__init__ and
\* BackupProvider.__init__
BUS_init ==
    /\ qs = [channel |-> FALSE, subscribing |-> FALSE, queue |-> FALSE,
             readyfired |-> FALSE, readycb |-> FALSE, gets |-> 0, n |-> 0,
             producer |-> FALSE, keepProducing |-> TRUE, writes |-> <<>>]
    /\ reg = [initialized |-> FALSE, producer |-> FALSE, paused |-> TRUE]

\* The configurations of max_queue_size that are explored: none, and QMax.
QMaxValues == {0, QMax}

\* The configurations of batch_send_perf that are explored.
BatchValues == {1, BatchSize}

\* ------------------------------------------------------------ specifications
\* The components a behaviour is not about stay as constructed.
EXT_init ==
    /\ RCV_init
    /\ NTS_init({FALSE})
    /\ TX_init({TX_NoLine})
    /\ SM_init({{}})
    /\ DB_init
    /\ BUS_init

FWD_init ==
    /\ psf_o2o = {}
    /\ psf_nonode = {}
    /\ lastop = "-"
    /\ PSF_init({1})
    /\ BP_init({0}, {1})
    /\ STN_init
    /\ stn_backuptoempty = FALSE

InitPSF ==
    /\ sys = "psf"
    /\ psf_o2o = {}
    /\ psf_nonode = {}
    /\ lastop = "-"
    /\ PSF_init(SimultValues)
    /\ BP_init({0}, {1})
    /\ STN_init
    /\ EXT_init

InitBP ==
    /\ sys = "bp"
    /\ psf_o2o = {}
    /\ psf_nonode = {}
    /\ lastop = "-"
    /\ PSF_init({1})
    /\ BP_init(QMaxValues, BatchValues)
    /\ STN_init
    /\ EXT_init

InitSTN ==
    /\ sys = "stn"
    /\ psf_o2o = {}
    /\ psf_nonode = {}
    /\ lastop = "-"
    /\ PSF_init({1})
    /\ BP_init({0}, {1})
    /\ STN_init
    /\ EXT_init

\* The messages a PubSubSender is given that are oneToOne elements: the
\* second one, or the first two.
OneToOneIds == {{2}, {1, 2}}

\* A PubSubSender that is given oneToOne messages among the others.
InitO2O ==
    /\ sys = "psf"
    /\ psf_o2o \in OneToOneIds
    /\ psf_nonode = {}
    /\ lastop = "-"
    /\ PSF_init(SimultValues)
    /\ BP_init({0}, {1})
    /\ STN_init
    /\ stn_backuptoempty = FALSE
    /\ EXT_init

\* The messages a PubSubSender is given whose type has no destination node in
\* its publications: none, or the second one.
NoNodeIds == {{}, {2}}

\* A PubSubSender that is given messages of a type without destination node
\* among the others.
InitKinds ==
    /\ sys = "psf"
    /\ psf_o2o = {}
    /\ psf_nonode \in NoNodeIds
    /\ lastop = "-"
    /\ PSF_init(SimultValues)
    /\ BP_init({0}, {1})
    /\ STN_init
    /\ stn_backuptoempty = FALSE
    /\ EXT_init

SpecKinds == InitKinds /\ [][NextPSF]_vars

\* The receiving side: a MessageHandler or a PubSubListener.
InitRcv ==
    /\ sys \in {"mh", "psl"}
    /\ FWD_init
    /\ EXT_init

InitNTS ==
    /\ sys = "nts"
    /\ FWD_init
    /\ RCV_init
    /\ NTS_init(BOOLEAN)
    /\ TX_init({TX_NoLine})
    /\ SM_init({{}})
    /\ DB_init
    /\ BUS_init

\* text2xml on one line.
InitCodec ==
    /\ sys = "tx"
    /\ FWD_init
    /\ RCV_init
    /\ NTS_init({FALSE})
    /\ TX_init(TX_Lines)
    /\ SM_init({{}})
    /\ DB_init
    /\ BUS_init

\* A BusPublisher that is given messages to send.
InitSend ==
    /\ sys = "sm"
    /\ FWD_init
    /\ RCV_init
    /\ NTS_init({FALSE})
    /\ TX_init({TX_NoLine})
    /\ SM_init(SM_Publications)
    /\ DB_init
    /\ BUS_init

InitDb ==
    /\ sys = "db"
    /\ FWD_init
    /\ EXT_init

\* One forwarder at a time.
SpecPSF == InitPSF /\ [][NextPSF]_vars

SpecBP == InitBP /\ [][NextBP]_vars

SpecSTN == InitSTN /\ [][NextSTN]_vars

SpecO2O == InitO2O /\ [][NextPSF]_vars

\* The handlers of the connected notification: either forwarder, or a
\* BusPublisher.
InitConn == InitPSF \/ InitBP \/ InitSend

NextConn == NextPSF \/ NextBP \/ NextSM

SpecConn == InitConn /\ [][NextConn]_vars

SpecRcv == InitRcv /\ [][NextRcv]_vars

SpecNTS == InitNTS /\ [][NextNTS]_vars

SpecCodec == InitCodec /\ [][TX_call]_vars

SpecSend == InitSend /\ [][NextSM]_vars

SpecDb == InitDb /\ [][NextDB]_vars

\* Both receivers of pubsub events, each on its own.
InitIn == InitRcv \/ InitNTS

NextIn == NextRcv \/ NextNTS

SpecIn == InitIn /\ [][NextIn]_vars

\* The handlers of the AMQP bus around their producers: a MessageHandler fed
\* by a QueueSubscriber, and a BusPublisher fed by a BackupProvider.
InitBus ==
    /\ sys \in {"qs", "reg"}
    /\ FWD_init
    /\ EXT_init

NextBus == NextQS \/ NextReg

SpecBus == InitBus /\ [][NextBus]_vars

\* The worker of either pipeline.
InitFwd == InitPSF \/ InitBP

NextFwd == NextPSF \/ NextBP

SpecFwd == InitFwd /\ [][NextFwd]_vars

\* ------------------------------------------------------------ retry-store faults
\* The store after a put of message i that failed: its row was never written.
StoreUnput(store, i) ==
    LET k == CHOOSE k \in 1..Len(store) :
                 /\ store[k].id = i
                 /\ \A j \in (k + 1)..Len(store) : store[j].id # i
    IN  SubSeq(store, 1, k - 1) \o SubSeq(store, k + 1, Len(store))

\* The message whose put the disconnected drain awaits: the one it took last
\* from the head of the queue (forwarder.py 174-177).
PSF_Draining == psf_n - Len(psf_queue)

\* processQueue suspended at yield self.retry.put(msg) (line 177): the put fails
\* with an I/O error.  Nothing catches the exception raised into the generator:
\* processQueue ends there, before line 178 clears the flag.
PSF_putFail ==
    /\ sys = "psf"
    /\ psf_pc = "put"
    /\ PSF_Draining \in IdSet(psf_retry)
    /\ psf_retry' = StoreUnput(psf_retry, PSF_Draining)
    /\ psf_pc' = "idle"
    /\ lastop' = "-"
    /\ UNCHANGED <<sys, extvars, bpvars, stnvars, psf_o2o, psf_nonode, psf_sent, psf_forwarded, psf_starts, psf_connected, psf_queue,
                   psf_processing, psf_hand, psf_pending, psf_inflight,
                   psf_calls, psf_running, psf_startcb, psf_max, psf_n,
                   psf_processed, psf_delivered, psf_nfail, psf_nlost,
                   psf_discIngest>>

\* processQueue suspended at yield self.retry.qsize() (line 182) or at
\* yield self.retry.pop() (line 192): the operation fails because the database
\* is locked.  Nothing catches the exception: processQueue ends there, with the
\* flag still set and the store as it was.
PSF_storeFail ==
    /\ sys = "psf"
    /\ psf_pc \in {"qsize", "pop"}
    /\ psf_pc' = "idle"
    /\ lastop' = "-"
    /\ UNCHANGED <<sys, extvars, bpvars, stnvars, psf_o2o, psf_nonode, psf_sent, psf_forwarded, psf_starts, psf_connected, psf_queue, psf_retry,
                   psf_processing, psf_hand, psf_pending, psf_inflight,
                   psf_calls, psf_running, psf_startcb, psf_max, psf_n,
                   psf_processed, psf_delivered, psf_nfail, psf_nlost,
                   psf_discIngest>>

\* BusPublisher.connectionLost -> BackupProvider.pauseProducing -> _saveToDb
\* when the put of the k-th queued message fails with an I/O error: the errback
\* eb (lines 504-506) logs it, and the message, already taken off the queue by
\* popleft (line 509), is in neither place.
BP_connectionLostIoError ==
    /\ sys = "bp"
    /\ pub_initialized
    /\ bp_queue # <<>>
    /\ pub_initialized' = FALSE
    /\ bp_paused' = TRUE
    /\ \E k \in 1..Len(bp_queue) :
          bp_retry' = BP_saveToDb(bp_retry,
                                  SubSeq(bp_queue, 1, k - 1)
                                      \o SubSeq(bp_queue, k + 1, Len(bp_queue)))
    /\ bp_queue' = <<>>
    /\ lastop' = "-"
    /\ UNCHANGED <<sys, extvars, psfvars, stnvars, bp_maxq, bp_prodpaused, bp_dbinit, bp_resumecb,
                   bp_processing, bp_pc, bp_hand, bp_saving, pub_batchsize,
                   pub_batch, pub_sending, bp_n, bp_last, bp_delivered, bp_stopped>>

\* BackupProvider.processQueue suspended at msg = yield self._getNextMsg()
\* (line 483): retry.pop() fails because the database is locked.  The yield is
\* outside the try of lines 486-489: processQueue ends there, with the flag
\* still set.
BP_getNextFail ==
    /\ sys = "bp"
    /\ bp_pc = "getnext"
    /\ bp_pc' = "idle"
    /\ lastop' = "-"
    /\ UNCHANGED <<sys, extvars, psfvars, stnvars, bp_maxq, bp_prodpaused, bp_paused, bp_queue,
                   bp_retry, bp_dbinit, bp_resumecb, bp_processing, bp_hand,
                   bp_saving, pub_initialized, pub_batchsize, pub_batch,
                   pub_sending, bp_n, bp_last, bp_delivered, bp_stopped>>

\* Both forwarders with a retry store whose operations can fail.
NextIO ==
    \/ NextFwd
    \/ PSF_putFail
    \/ PSF_storeFail
    \/ BP_connectionLostIoError
    \/ BP_getNextFail

SpecIO == InitFwd /\ [][NextIO]_vars

Init == InitPSF \/ InitBP \/ InitSTN

Next == NextPSF \/ NextBP \/ NextSTN

Spec == Init /\ [][Next]_vars

\* ------------------------------------------------------------ scenario S6
\* The bus connects and stays connected and every publish succeeds: there is
\* no connectionLost and no failed publish.  The reactor runs every scheduled
\* call and every tick, the store answers every request, the bus every publish.
NextS6 ==
    \/ PSF_connectionInitialized
    \/ PSF_start_task
    \/ PSF_forwardMessage
    \/ PSF_processQueue
    \/ PSF_tick
    \/ PSF_putDone
    \/ PSF_qsizeDone
    \/ PSF_popDone
    \/ \E m \in 1..MaxMsgs : PSF_publishOk(m)

FairS6 ==
    /\ WF_vars(PSF_connectionInitialized)
    /\ WF_vars(PSF_start_task)
    /\ WF_vars(PSF_processQueue)
    /\ WF_vars(PSF_tick)
    /\ WF_vars(PSF_putDone)
    /\ WF_vars(PSF_qsizeDone)
    /\ WF_vars(PSF_popDone)
    /\ WF_vars(\E m \in 1..MaxMsgs : PSF_publishOk(m))

SpecS6 == InitPSF /\ [][NextS6]_vars /\ FairS6

\* ------------------------------------------------------------ properties
\* C1: every message SocketToNodeForwarder stored while the bus was
\* disconnected is replayed when the bus is reachable again: once
\* connectionInitialized (and with it sendQueuedMessages) has run on a working
\* connection, nothing is left in the retry store.
C1_StoredAreReplayed ==
    (sys = "stn" /\ lastop = "connectionInitialized") => stn_store = <<>>

\* C2: when the bus is connected before the first forwardMessage, stays
\* connected and every publish succeeds, the messages handed to processMessage
\* are m1..mn in ingestion order, each once: what has been processed followed
\* by what is still queued is exactly m1..mn, nothing goes to the retry store,
\* and when the worker is idle with no call scheduled nothing is left queued.
C2_InOrderOnce ==
    (sys = "psf" /\ ~psf_discIngest /\ psf_nlost = 0 /\ psf_nfail = 0) =>
        /\ psf_retry = <<>>
        /\ Ids(psf_processed) \o Ids(psf_queue) = UpTo(psf_n)
        /\ psf_delivered \subseteq IdSet(psf_processed)
        /\ (psf_pc = "idle" /\ psf_calls = 0 => psf_queue = <<>>)

\* All MaxMsgs messages were ingested on a connected bus, processed in order
\* and acknowledged.
C2_Witness ==
    /\ sys = "psf" /\ ~psf_discIngest /\ psf_nlost = 0 /\ psf_nfail = 0
    /\ Ids(psf_processed) = UpTo(MaxMsgs)
    /\ psf_delivered = 1..MaxMsgs

\* C3: messages ingested while the bus is disconnected are, once the bus is
\* connected and stays so with succeeding publishes, all published in
\* insertion order, and the retry store ends empty: at every moment the
\* processed messages, then the store, then the queue hold m1..mn in order, and
\* eventually the store and the queue stay empty with m1..mn processed in order
\* and acknowledged.
C3_ReplayInOrder ==
    /\ [](Ids(psf_processed) \o Ids(psf_retry) \o Ids(psf_queue) = UpTo(psf_n))
    /\ <>[](/\ psf_retry = <<>>
            /\ psf_queue = <<>>
            /\ Ids(psf_processed) = UpTo(psf_n)
            /\ psf_delivered = 1..psf_n)

\* The replay is under way: the bus is connected, the first message has been
\* published from the store, the others are still in the store, in order.
C3_Witness ==
    /\ sys = "psf" /\ psf_connected /\ psf_discIngest
    /\ Ids(psf_processed) = <<1>>
    /\ Ids(psf_retry) = [i \in 1..(MaxMsgs - 1) |-> i + 1]
    /\ psf_queue = <<>>

\* A wake-up of the PubSubForwarder worker: a scheduled call or the tick.
PSF_Wake == PSF_processQueue \/ PSF_tick

\* C4 (PubSubForwarder, steps): a wake-up that passes the flag while the bus is
\* not connected, and each resumption of its drain loop, initiates no publish,
\* keeps the order of store followed by queue, and returns only with the queue
\* empty.
C4_PSF_Drain ==
    ((PSF_Wake /\ ~psf_processing /\ ~psf_connected) \/ PSF_putDone) =>
        /\ psf_processed' = psf_processed
        /\ psf_inflight' = psf_inflight
        /\ Ids(psf_retry') \o Ids(psf_queue') = Ids(psf_retry) \o Ids(psf_queue)
        /\ (psf_pc' = "idle" => psf_queue' = <<>>)

\* C4 (BackupProvider, steps): a write that passes the flag while the provider
\* is paused puts the whole queue, the new message last, in the store, leaves
\* the queue empty and hands nothing to the consumer.
C4_BP_Drain ==
    ((\E k \in Kinds : BP_write(k)) /\ bp_paused /\ ~bp_processing) =>
        /\ bp_queue' = <<>>
        /\ Ids(bp_retry') = Ids(bp_retry) \o Ids(bp_queue) \o <<bp_n + 1>>
        /\ bp_last' = bp_last
        /\ bp_pc' = bp_pc
        /\ pub_sending' = pub_sending

\* C4 (states): once the worker has run on a disconnected bus (it is idle and
\* no call is scheduled; the provider is paused and its flag clear) the queue
\* is empty; and after n messages ingested on a bus that was never connected
\* the store holds the n messages in order.
C4_AfterDrain ==
    /\ (sys = "psf" /\ ~psf_connected /\ psf_pc = "idle" /\ psf_calls = 0) =>
            psf_queue = <<>>
    /\ (sys = "psf" /\ ~psf_connected /\ psf_nlost = 0
          /\ psf_pc = "idle" /\ psf_calls = 0) =>
            /\ StoreSize(psf_retry) = psf_n
            /\ Ids(psf_retry) = UpTo(psf_n)
            /\ psf_processed = <<>>
    /\ (sys = "bp" /\ bp_paused /\ ~bp_processing) => bp_queue = <<>>
    /\ (sys = "bp" /\ bp_paused /\ ~bp_processing /\ bp_last = 0) =>
            Ids(bp_retry) = UpTo(bp_n)

\* C4: when the send worker wakes while the bus is not connected it moves
\* every item of the in-memory queue into the retry store in queue order,
\* initiates no publish and returns with the queue empty; after n messages
\* ingested while disconnected the store size is n and the queue length 0.
C4_DisconnectedDrain ==
    /\ []C4_AfterDrain
    /\ [][C4_PSF_Drain]_vars
    /\ [][C4_BP_Drain]_vars

\* MaxMsgs messages were ingested while disconnected and the worker has run:
\* they are all in the store and the queue is empty.
C4_Witness ==
    /\ sys = "psf" /\ ~psf_connected /\ psf_nlost = 0
    /\ psf_pc = "idle" /\ psf_calls = 0
    /\ StoreSize(psf_retry) = MaxMsgs
    /\ psf_queue = <<>>

\* C5: after BackupProvider.stopService() has completed, with the worker
\* returned and no send outstanding, every message written and not delivered to
\* the bus is in the retry store.
C5_StopSavesUndelivered ==
    (sys = "bp" /\ lastop = "stopService" /\ ~bp_processing /\ pub_sending = <<>>) =>
        \A i \in 1..bp_n : i \in bp_delivered \/ i \in IdSet(bp_retry)

\* C6: a write() that finds the bounded queue full discards no message: every
\* message that was queued is still queued or is in the retry store afterwards.
C6_FullQueueKeepsAll ==
    [][\A k \in Kinds :
          (BP_write(k) /\ bp_maxq > 0 /\ Len(bp_queue) >= bp_maxq) =>
              IdSet(bp_queue) \subseteq IdSet(bp_queue') \cup IdSet(bp_retry')]_vars

\* C7 (PubSubForwarder): when the store's pop completes, the message processed
\* is the store's oldest entry whenever the store is non-empty, and the queue
\* is then left alone; the queue's head is taken only with the store empty.
C7_PSF_Select ==
    PSF_popDone =>
        /\ (psf_retry # <<>> =>
              /\ psf_processed' =
                     Append(psf_processed, ParseXml(StoreOldest(psf_retry)))
              /\ psf_queue' = psf_queue)
        /\ (psf_queue' # psf_queue =>
              /\ psf_retry = <<>>
              /\ psf_queue' = Tail(psf_queue)
              /\ psf_processed' = Append(psf_processed, Head(psf_queue)))

\* C7 (BackupProvider): the message _getNextMsg hands to consumer.write is the
\* store's oldest entry whenever the store is non-empty (the queue then only
\* changes by the failure handler putting that message back); the queue's head
\* is taken only with the store empty.
C7_BP_Select ==
    BP_getNextDone =>
        /\ (bp_retry # <<>> =>
              /\ bp_last' = StoreOldest(bp_retry).id
              /\ bp_retry' = StoreAfterPop(bp_retry)
              /\ \/ bp_queue' = bp_queue
                 \/ bp_queue' = BP_Append(bp_queue, JsonLoads(StoreOldest(bp_retry)),
                                          bp_maxq))
        /\ (bp_retry = <<>> /\ bp_queue # <<>> => bp_last' = Head(bp_queue).id)
        /\ (bp_retry = <<>> /\ bp_queue = <<>> => bp_last' = bp_last)

\* C7: every time the send worker selects its next message it selects the
\* retry store's oldest entry whenever the store is non-empty; an item of the
\* in-memory queue is dequeued for sending only when the pop returned nothing.
C7_RetryPriority ==
    /\ [][C7_PSF_Select]_vars
    /\ [][C7_BP_Select]_vars

\* The worker is publishing message 1, which it took from the store, while the
\* store still holds message 2 and the queue message 3.
C7_Witness ==
    /\ sys = "psf" /\ psf_connected /\ psf_nlost = 0 /\ psf_nfail = 0
    /\ psf_pc = "yield" /\ psf_hand = 1
    /\ Ids(psf_retry) = <<2>>
    /\ Ids(psf_queue) = <<3>>

\* C8 (states): _pending_replies never holds more than max_send_simult
\* publishes; when it holds that many the worker is waiting for the replies;
\* no more than max_send_simult publishes are outstanding; and while the bus
\* completes nothing, no more than max_send_simult publishes are initiated.
C8_Bound ==
    sys = "psf" =>
        /\ Len(psf_pending) <= psf_max
        /\ (Len(psf_pending) >= psf_max => psf_pc = "wait")
        /\ Cardinality(psf_inflight) <= psf_max
        /\ (psf_delivered = {} /\ psf_nfail = 0 /\ psf_nlost = 0 =>
              Len(psf_processed) <= psf_max)

\* C8 (steps): while the worker waits for the replies it initiates no publish,
\* and it leaves the wait only when every pending reply has settled.
C8_Wait ==
    psf_pc = "wait" =>
        /\ psf_processed' = psf_processed
        /\ psf_inflight' \subseteq psf_inflight
        /\ (psf_pc' # "wait" => PSF_AllSettled(psf_pending, psf_inflight'))

\* C8: the number of publishes awaiting completion is at most max_send_simult,
\* and once it reaches max_send_simult no further publish is initiated until
\* all pending replies have settled.
C8_BoundedInFlight ==
    /\ []C8_Bound
    /\ [][C8_Wait]_vars

\* max_send_simult is 2, two publishes are pending and unanswered, the worker
\* waits, and a third message is queued.
C8_Witness ==
    /\ sys = "psf" /\ psf_max = 2
    /\ Len(psf_pending) = 2 /\ Cardinality(psf_inflight) = 2
    /\ psf_pc = "wait"
    /\ psf_delivered = {}
    /\ psf_queue # <<>>

\* C9 (PubSubForwarder): a wake-up that finds the flag set changes nothing of
\* the worker: nothing is dequeued, stored or published, and the suspended
\* worker stays where it is.
C9_PSF_Skip ==
    (PSF_Wake /\ psf_processing) =>
        UNCHANGED <<psf_queue, psf_retry, psf_processed, psf_inflight,
                    psf_pending, psf_hand, psf_pc, psf_processing>>

\* C9 (BackupProvider): a processQueue call that finds the flag set (from
\* write, resumeProducing or the callback chained to retry.initialized) stores
\* nothing and hands nothing to the consumer; a write only appends its message.
C9_BP_Skip ==
    /\ \A k \in Kinds : (BP_write(k) /\ bp_processing) =>
          /\ bp_queue' = BP_Append(bp_queue, Msg(bp_n + 1, k), bp_maxq)
          /\ UNCHANGED <<bp_retry, bp_last, bp_hand, bp_pc, bp_processing,
                         bp_saving, pub_batch, pub_sending>>
    /\ ((BP_connectionInitialized \/ BP_startService) /\ bp_processing) =>
          UNCHANGED <<bp_queue, bp_retry, bp_last, bp_hand, bp_pc,
                      bp_processing, bp_saving, pub_batch, pub_sending>>

C10_NoWriteWhilePaused ==
    [][(sys = "bp" /\ bp_paused /\ BP_getNextDone) =>
          BP_NextSource(bp_retry, bp_queue) = "none"]_vars

\* C11: stopService is a barrier: once BackupProvider.stopService() has run,
\* no message is handed to consumer.write any more, neither by a worker that
\* was in progress nor for a message written afterwards.
C11_StopIsBarrier ==
    [][(sys = "bp" /\ bp_stopped /\ BP_getNextDone) =>
          BP_NextSource(bp_retry, bp_queue) = "none"]_vars

\* C12 (the errback): a failed publish of m puts exactly one row, the payload
\* of m, at the end of the retry store and changes no other row.
C12_Reput ==
    \A m \in 1..MaxMsgs, cond \in Conditions :
        PSF_publishFail(m, cond) =>
            /\ Len(psf_retry') = Len(psf_retry) + 1
            /\ SubSeq(psf_retry', 1, Len(psf_retry)) = psf_retry
            /\ psf_retry'[Len(psf_retry')] = ToXml(Elem(m))

\* C12 (nothing lost): every message the worker has handed to the publisher is
\* delivered, awaits its completion, or is in the retry store, from which a
\* later wake-up takes it.
C12_Kept ==
    sys = "psf" =>
        \A i \in IdSet(psf_processed) :
            i \in psf_delivered \/ i \in psf_inflight \/ i \in IdSet(psf_retry)

\* C12: when a publish completion fails, the failure handler puts the payload
\* of exactly that message back into the retry store, once, so that it is
\* published again on a later wake-up.
C12_FailedIsStoredOnce ==
    /\ [][C12_Reput]_vars
    /\ []C12_Kept

\* A publish has failed over a live connection, its message went through the
\* store, was handed to the publisher a second time and is delivered.
C12_Witness ==
    /\ sys = "psf" /\ psf_nfail = 1 /\ psf_nlost = 0 /\ ~psf_discIngest
    /\ \E i, j \in 1..Len(psf_processed) :
          /\ i < j
          /\ psf_processed[i].id = psf_processed[j].id
          /\ psf_processed[i].id \in psf_delivered
    /\ psf_retry = <<>>

\* C13: when consumer.write fails in BackupProvider.processQueue the message is
\* retained for retransmission: after the failure it is in the in-memory queue
\* (or in the retry store), never dropped.
C13_FailedWriteRetained ==
    [][BP_writeFail =>
          \/ \E i \in 1..Len(bp_queue') : bp_queue'[i].id = bp_hand.id
          \/ \E i \in 1..Len(bp_retry') : bp_retry'[i].id = bp_hand.id]_vars

\* C14: a publish that the broker rejects as 'not acceptable' is logged and is
\* not put back into the retry store or the queue.
C14_NotAcceptableDropped ==
    [][\A m \in 1..MaxMsgs :
          PSF_publishFail(m, "not-acceptable") =>
              /\ psf_retry' = psf_retry
              /\ psf_queue' = psf_queue]_vars

\* C15: when a put in the retry store fails with an I/O error during a drain
\* (the disconnected drain of PubSubForwarder, the pause of BackupProvider),
\* the message is placed back into the in-memory queue.
C15_PutFailureRequeues ==
    [][/\ PSF_putFail => PSF_Draining \in IdSet(psf_queue')
       /\ BP_connectionLostIoError =>
              IdSet(bp_queue) \subseteq IdSet(bp_queue') \cup IdSet(bp_retry')]_vars

\* C16: when an operation of the retry store fails with lock contention during
\* a worker run, the run ends with the processing flag cleared (so that a later
\* wake-up performs the operation again).
C16_ContentionClearsFlag ==
    [][(PSF_storeFail \/ BP_getNextFail) =>
          (~psf_processing' /\ ~bp_processing')]_vars

\* C17: no operation at the forwarder boundary (lineReceived, publishXml,
\* sendOneToOneXml, connectionInitialized) lets an error escape as an
\* exception, whatever the line is: here a message of a type that has no
\* destination node.
C17_NoExceptionEscapes == sys = "stn" => ~stn_raised

\* C18: when the queue of a bounded BackupProvider is filled above 99% of its
\* maximum size, the upstream producer has been asked to pause.
C18_PausedWhenFull ==
    (sys = "bp" /\ bp_maxq > 0 /\ Len(bp_queue) * 100 > 99 * bp_maxq) =>
        bp_prodpaused

\* C19: with batch_size > 1, when the connection is lost while the perf batch
\* buffer is not empty, every buffered perf message is put in the retry store
\* as an entry of its own and the buffer is emptied.
C19_BatchFlushedOnLoss ==
    [][(BP_connectionLost /\ pub_batchsize > 1 /\ pub_batch # <<>>) =>
          /\ pub_batch' = <<>>
          /\ \A i \in 1..Len(pub_batch) : pub_batch[i] \in IdSet(bp_retry')]_vars

\* The message the worker of BackupProvider hands to consumer.write next.
C20_Msg ==
    IF bp_retry # <<>> THEN JsonLoads(Head(bp_retry)) ELSE Head(bp_queue)

\* C20 (one call): a message that is not a perf message is sent as it is and
\* the buffer is untouched; a perf message is appended to the buffer and
\* nothing is sent until the buffer holds batch_send_perf messages, and then
\* one aggregate of exactly those messages, in arrival order, is sent and the
\* buffer is emptied.
C20_Call ==
    (/\ BP_getNextDone
     /\ pub_batchsize > 1
     /\ BP_NextSource(bp_retry, bp_queue) # "none") =>
        IF C20_Msg.kind # "perf"
        THEN /\ pub_batch' = pub_batch
             /\ pub_initialized => pub_sending' = <<C20_Msg.id>>
        ELSE IF Len(pub_batch) + 1 < pub_batchsize
        THEN /\ pub_batch' = Append(pub_batch, C20_Msg.id)
             /\ pub_sending' = <<>>
             /\ bp_pc' = "getnext"
        ELSE /\ pub_batch' = <<>>
             /\ pub_initialized =>
                    /\ pub_sending' = Append(pub_batch, C20_Msg.id)
                    /\ Len(pub_sending') = pub_batchsize

\* C20: with batch_send_perf k > 1 the accumulation sends other messages
\* unchanged, holds perf messages back until k are buffered, then sends one
\* aggregate of those k in arrival order and empties the buffer; the buffer
\* holds fewer than k messages after every call.
C20_Batching ==
    /\ [][C20_Call]_vars
    /\ [](pub_batchsize > 1 => Len(pub_batch) < pub_batchsize)

\* An aggregate of batch_send_perf = BatchSize perf messages has been handed to
\* the bus and the buffer is empty again.
C20_Witness ==
    /\ sys = "bp" /\ pub_batchsize = BatchSize /\ pub_batchsize > 1
    /\ bp_pc = "write"
    /\ Len(pub_sending) = pub_batchsize
    /\ pub_batch = <<>>

\* ------------------------------------------------------------ C21
\* The messages a sequence of received payloads stands for: the children of
\* every aggregate, in their order, and every other payload itself.
RECURSIVE Unwrapped(_)
Unwrapped(received) ==
    IF received = <<>> THEN <<>>
    ELSE (IF Head(received).messages # <<>> THEN Head(received).messages
          ELSE <<Head(received)>>) \o Unwrapped(Tail(received))

\* The payloads of the items and chats a PubSubListener received.
RECURSIVE PSL_Payloads(_)
PSL_Payloads(received) ==
    IF received = <<>> THEN <<>>
    ELSE (IF Head(received).name \in {"item", "chat"} THEN <<Head(received).data>>
          ELSE <<>>) \o PSL_Payloads(Tail(received))

C29_Acks ==
    /\ \A i, j \in 1..Len(mh_acks) : mh_acks[i] = mh_acks[j] => i = j
    /\ \A i \in 1..Len(mh_acks) :
          /\ mh_acks[i] \in 1..mh_n
          /\ mh_acks[i] \notin mh_failed
          /\ mh_acks[i] # mh_msg.tag
    /\ \A t \in 1..mh_n :
          (t \notin mh_failed /\ t # mh_msg.tag) => \E i \in 1..Len(mh_acks) : mh_acks[i] = t

C29_AckOnlyAfterSuccess ==
    /\ []C29_Acks
    /\ [][mh_acks' # mh_acks =>
            /\ MH_processOk
            /\ mh_list = <<>>
            /\ mh_acks' = Append(mh_acks, mh_msg.tag)]_vars

\* A batch whose second child failed is not acknowledged; the message
\* received after it is.
C29_Witness ==
    /\ Len(mh_received) = 2
    /\ Len(mh_received[1].messages) = 2
    /\ Len(mh_processed) = 3
    /\ mh_failed = {1}
    /\ mh_acks = <<2>>

\* ------------------------------------------------------------ C23
\* The payloads written to the socket, in the order of the writes.
NTS_Payloads(written) == [i \in 1..Len(written) |-> written[i].msg]

\* C23: in NodeToSocketForwarder.itemsReceived an item received while the
\* socket is not connected is stored in the retry store and not written; an
\* item received while the socket is connected and a backlog exists is
\* written after the whole backlog, so that the socket receives the messages
\* in the order in which they arrived from the bus.  What was written followed
\* by what is stored is what arrived, in that order; a step that receives an
\* item on a closed socket writes nothing and adds the item to the store; a
\* step that receives one on a connected socket leaves the store empty.
C23_Order == Ids(NTS_Payloads(nts_written)) \o Ids(nts_store) = nts_arrived

C23_StoredThenReplayedInOrder ==
    /\ []C23_Order
    /\ [][(nts_arrived' # nts_arrived /\ ~nts_connected) =>
            /\ nts_written' = nts_written
            /\ nts_store' = Append(nts_store, ToXml(Elem(nts_n + 1)))]_vars
    /\ [][(nts_arrived' # nts_arrived /\ nts_connected) =>
            /\ nts_store' = <<>>
            /\ Len(nts_written') = Len(nts_written) + Len(nts_store) + 1
            /\ nts_written'[Len(nts_written')] =
                   NTS_Written(ToXml(Elem(nts_n + 1)), "bus")]_vars

\* Two items were stored while the socket was closed; the third arrived on a
\* connected socket and was written after the two of the backlog.
C23_Witness ==
    /\ nts_arrived = <<1, 2, 3>>
    /\ nts_written = <<NTS_Written(ToXml(Elem(1)), "backup"),
                       NTS_Written(ToXml(Elem(2)), "backup"),
                       NTS_Written(ToXml(Elem(3)), "bus")>>

\* ------------------------------------------------------------ C24
\* The rows the gets returned: their results without the None ones.
RECURSIVE DB_Rows(_)
DB_Rows(got) ==
    IF got = <<>> THEN <<>>
    ELSE (IF Head(got) = 0 THEN <<>> ELSE <<Head(got)>>) \o DB_Rows(Tail(got))

\* C24: for any interleaving of DbRetry put and get, each get returns the
\* oldest entry not yet returned and removes it, so that the dequeued order is
\* the enqueued order and no entry is returned twice; a get on an empty store
\* returns None.  The rows returned so far followed by the rows still stored
\* are the rows put, in the order of the puts, and a get returns None exactly
\* when the store is empty.
C24_Fifo == DB_Rows(db_got) \o Ids(db_store) = UpTo(db_nput)

C24_FifoOrNone ==
    /\ []C24_Fifo
    /\ [][db_got' # db_got =>
            /\ (db_got'[Len(db_got')] = 0) <=> (db_store = <<>>)
            /\ db_store # <<>> =>
                   /\ db_got'[Len(db_got')] = db_store[1].id
                   /\ db_store' = Tail(db_store)]_vars

\* The behaviour of test_retrieval: three puts, three gets that return the
\* rows in the order of the puts, and a last get that returns None.
C24_Witness ==
    /\ db_nput = 3
    /\ db_got = <<1, 2, 3, 0>>

\* ------------------------------------------------------------ C25
\* C25: BusPublisher.sendMessage publishes a message to the exchange
\* publications[type] when its type is configured and otherwise to the
\* exchange named by its type, with the routing key msg.routing_key when
\* present and the type otherwise, and with the persistent flag
\* msg.persistent, true by default: delivery-mode 2 when persistent, 1 when
\* not.
C25_Published ==
    sm_sent # SM_NotSent =>
        /\ sm_sent.exchange = IF sm_msg.type \in sm_publications
                              THEN "exchange-" \o sm_msg.type
                              ELSE sm_msg.type
        /\ sm_sent.routing_key = IF sm_msg.routing_key.json = "absent"
                                 THEN sm_msg.type
                                 ELSE sm_msg.routing_key.text
        /\ sm_sent.delivery_mode = IF sm_msg.persistent.json = "absent"
                                   THEN 2
                                   ELSE IF sm_msg.persistent.text = "True" THEN 2
                                   ELSE 1

\* A message of a configured type, with a routing key and not persistent, was
\* published to the configured exchange with its key and delivery-mode 1.
C25_Witness ==
    /\ sm_msg = [type |-> "event", routing_key |-> Json("string", "all"),
                 persistent |-> Json("boolean", "False")]
    /\ sm_publications = {"event"}
    /\ sm_sent = [exchange |-> "exchange-event", routing_key |-> "all",
                  delivery_mode |-> 1]

\* ------------------------------------------------------------ C22
\* The task was started exactly when it runs: never twice.
C22_StartedOnce == psf_starts = IF psf_running THEN 1 ELSE 0

C30_NeverPending ==
    \A m \in psf_o2o :
        /\ \A i \in 1..Len(psf_pending) : psf_pending[i] # m
        /\ m \notin psf_inflight
        /\ psf_hand # m

\* processQueue has handed a oneToOne message to processMessage.
C30_Processed ==
    /\ PSF_popDone
    /\ Len(psf_processed') = Len(psf_processed) + 1
    /\ psf_processed'[Len(psf_processed')].id \in psf_o2o

\* C30: a oneToOne message handed to PubSubSender.processMessage yields no
\* completion: it is counted as sent and forwarded, is never added to the
\* pending replies, and the worker continues with the next message without
\* waiting for it.  The step that processes it increments both counters and
\* leaves the pending replies as they are; on a connected bus the worker is
\* then at the top of its loop, taking the next message.
C30_OneToOneNotAwaited ==
    /\ []C30_NeverPending
    /\ [][C30_Processed =>
            /\ psf_sent' = psf_sent + 1
            /\ psf_forwarded' = psf_forwarded + 1
            /\ psf_pc' # "yield"
            /\ psf_pending' = psf_pending \/ (psf_pending' = <<>> /\ psf_pc' = "idle")
            /\ psf_connected => (psf_pc' = "pop" /\ psf_pending' = psf_pending)]_vars

\* With two simultaneous sends allowed, the oneToOne message 2 was processed
\* between the publishes of 1 and 3: the worker waits for the replies to 1
\* and 3 only, and has counted three messages.
C30_Witness ==
    /\ psf_o2o = {2}
    /\ Ids(psf_processed) = <<1, 2, 3>>
    /\ psf_pending = <<1, 3>>
    /\ psf_pc = "wait"
    /\ psf_sent = 3
    /\ 2 \in psf_delivered

\* ------------------------------------------------------------ C26
\* C26: text2xml returns a message or None for every line and never raises an
\* exception: for an unknown kind, for the empty string, and for a line with
\* too few or too many fields for its kind.
C26_NeverRaises == tx_out.res \in {"-", "none", "msg"}

\* ------------------------------------------------------------ C27
\* The names of the children of the message of a kind, in order.
TX_ChildNames(kind) ==
    IF kind = "event" THEN <<"timestamp", "host", "service", "state", "message">>
    ELSE IF kind = "perf" THEN <<"timestamp", "host", "datasource", "value">>
    ELSE <<"timestamp", "host", "service", "type", "author", "comment">>

\* text2xml was called with a line of one of the three kinds.
C27_Called == tx_out.res # "-" /\ tx_line.head \in {"event", "perf", "downtime"}

\* C27: text2xml yields a message for kind event only with exactly 5 fields
\* after the kind, for perf only with exactly 4 and for downtime only with
\* exactly 6, and maps the fields in order to the named children of the kind;
\* any other number of fields for these kinds yields None.
C27_FieldCount ==
    C27_Called =>
        LET names == TX_ChildNames(tx_line.head) IN
        IF Len(tx_line.fields) = Len(names)
        THEN /\ tx_out.res = "msg"
             /\ tx_out.name = tx_line.head
             /\ tx_out.wrapped = tx_line.env
             /\ Len(tx_out.children) = Len(names)
             /\ \A i \in 1..Len(names) :
                   tx_out.children[i] =
                       TX_Child(names[i], Encode(tx_line.fields[i], tx_line.enc))
        ELSE tx_out.res = "none"

\* An event line with five fields, two of them different, gave an event whose
\* host is the second field and whose message is the fifth.
C27_Witness ==
    /\ tx_line = TX_Line(FALSE, "event",
                         <<<<"a">>, <<"accented">>, <<"a">>, <<"a">>, <<>>>>,
                         FALSE, "utf8")
    /\ tx_out.res = "msg"
    /\ tx_out.children[2] = TX_Child("host", <<Tok("accented", "utf8")>>)
    /\ tx_out.children[5] = TX_Child("message", <<>>)

\* ------------------------------------------------------------ C28
\* C28: a line whose bytes are not valid UTF-8 is decoded as ISO-8859-15 before
\* it is parsed, so that text2xml gives the same message for the ISO-8859-15
\* encoding of a text as for its UTF-8 encoding.
C28_SameForBothEncodings ==
    tx_out.res # "-" =>
        tx_out = text2xml(TX_Bytes([tx_line EXCEPT !.enc = "utf8"]))
\* C31: an entry that is not an 'item' (a retraction) is ignored by both
\* itemsReceived handlers, and NodeToSocketForwarder.itemsReceived ignores an
\* event of a node other than its subscription's: nothing is written to the
\* socket, nothing is stored, nothing is queued, the backlog flag, the
\* connection and the consumer's state stay as they were.
C31_IgnoredLeavesStateUnchanged ==
    [][ /\ (\E name \in {"item", "retract"}, node \in BOOLEAN :
               /\ ~node \/ name # "item"
               /\ NTS_itemsReceived(name, node))
           => UNCHANGED <<nts_store, nts_backuptoempty, nts_written,
                          nts_arrived, nts_connected>>
        /\ (\E data \in PSL_Contents : PSL_itemsReceived("retract", data))
           => UNCHANGED <<psl_queue, mh_pc, mh_msg, mh_list, mh_processed,
                          mh_acks, mh_failed>>
      ]_vars

\* Both forwarders have been handed entries to ignore while holding state:
\* the socket forwarder a backlog, the listener a queued message.
C31_Witness ==
    \/ /\ sys = "nts"
       /\ nts_n > Len(nts_arrived)
       /\ StoreSize(nts_store) > 0
    \/ /\ sys = "psl"
       /\ \E i \in 1..Len(psl_received) : psl_received[i].name = "retract"
       /\ Len(psl_queue) > 0

\* The number of places that hold message i: its rows in the queue and in the
\* retry store, its publish in flight, its delivery.
C32_Places(i) ==
    Cardinality({k \in 1..Len(psf_queue) : psf_queue[k].id = i})
    + Cardinality({k \in 1..Len(psf_retry) : psf_retry[k].id = i})
    + (IF i \in psf_inflight THEN 1 ELSE 0)
    + (IF i \in psf_delivered THEN 1 ELSE 0)

\* C32 (as stated): for a PubSubForwarder with a retry store and no batching,
\* every ingested message is at all times in exactly one of the in-memory
\* queue, the retry store, in flight, or delivered: none is lost, none is in
\* two places.
C32_ExactlyOnePlace ==
    sys = "psf" => \A i \in 1..psf_n : C32_Places(i) = 1

\* C32 (amended): every ingested message whose type has a destination node is
\* at all times in exactly one of the four places; a message whose type has
\* none is in exactly one of the queue and the store until the worker hands it
\* to the publisher, which skips it, and in none of the places afterwards.
C32_ExactlyOnePlaceIfRouted ==
    sys = "psf" =>
        \A i \in 1..psf_n :
            IF i \in psf_nonode
            THEN /\ i \notin psf_inflight \cup psf_delivered
                 /\ C32_Places(i) = IF i \in IdSet(psf_processed) THEN 0 ELSE 1
            ELSE C32_Places(i) = 1

\* Every place has been used next to a skipped message: the message without
\* destination node has been handed to the publisher, another one went
\* through the store after a failed publish or a disconnected drain and is
\* delivered, and a third one is in flight.
C32_Witness ==
    /\ sys = "psf"
    /\ psf_nonode \cap IdSet(psf_processed) # {}
    /\ psf_nfail + psf_nlost > 0
    /\ psf_delivered # {}
    /\ psf_inflight # {}
    /\ Len(psf_processed) > Cardinality(IdSet(psf_processed))

\* C33: the processing flag is set only while a run of processQueue is in
\* progress: every way a run can end (normal exit, disconnected drain,
\* nothing to do, an error raised by an operation of the retry store, a failing
\* consumer) leaves the flag cleared.
C33_FlagOnlyWhileRunning ==
    /\ sys = "psf" => (psf_processing => psf_pc # "idle")
    /\ sys = "bp" => (bp_processing => bp_pc # "idle")

\* C34: with batch_send_perf = k > 1, when the publish of an aggregate fails,
\* every one of the k perf messages it carries is retained for a retry (in the
\* queue or in the retry store), not only the last one.
C34_FailedAggregateRetained ==
    [][(BP_writeFail /\ pub_batchsize > 1 /\ Len(pub_sending) > 1) =>
          \A i \in 1..Len(pub_sending) :
              pub_sending[i] \in IdSet(bp_queue') \cup IdSet(bp_retry')]_vars

\* C38: a run of BackupProvider.processQueue terminates even when the consumer
\* rejects every write: a message whose write failed is not fetched and written
\* again within the same run.  The loop of the run fetches whatever the store
\* and the queue hold, so when a write fails and the run goes on, the failed
\* message is in neither.
C38_FailedNotFetchedAgain ==
    [][(BP_writeFail /\ bp_pc' = "getnext") =>
          bp_hand.id \notin IdSet(bp_queue') \cup IdSet(bp_retry')]_vars

\* C35: whatever the interleaving of MessageHandler.write, pauseProducing and
\* resumeProducing with the arrivals, at most one fetch (queue.get) is
\* outstanding on the producer and at most one message is being processed.
C35_OneFetchOneMessage ==
    sys = "qs" => (qs.gets <= 1 /\ Len(qs.writes) <= 1)

\* C36: after the bus connection is lost and made again (connectionLost, then
\* connectionInitialized with its subscription completed), the consumption
\* that was running resumes.  Once the queue is there again, a handler whose
\* keepProducing is set has a fetch outstanding or a message in processing;
\* otherwise nothing of the pair will ever fetch again.
C36_ResumesAfterReconnect ==
    (sys = "qs" /\ qs.producer /\ qs.queue /\ qs.keepProducing) =>
        (qs.gets > 0 \/ qs.writes # <<>>)

\* C39 (as stated): once a BackupProvider is registered as the producer of a
\* BusPublisher, after every connectionInitialized, connectionLost,
\* registerProducer and unregisterProducer step the provider's paused flag is
\* true exactly when the publisher is not connected.
C39_PausedIffDisconnected ==
    [][(\/ (REG_connectionInitialized /\ reg.producer)
        \/ (REG_connectionLost /\ reg.producer)
        \/ REG_registerProducer
        \/ REG_unregisterProducer)
          => (reg'.paused <=> ~reg'.initialized)]_vars

\* C39 (amended): while the BackupProvider is the registered producer, after
\* every connectionInitialized, connectionLost and registerProducer step its
\* paused flag is true exactly when the publisher is not connected, and this
\* holds in every state where it is registered; unregisterProducer leaves the
\* provider paused, whether the publisher is connected or not.
C39_PausedIffDisconnectedWhileRegistered ==
    /\ []((sys = "reg" /\ reg.producer) => (reg.paused <=> ~reg.initialized))
    /\ [][(\/ (REG_connectionInitialized /\ reg.producer)
            \/ (REG_connectionLost /\ reg.producer)
            \/ REG_registerProducer)
              => (reg'.paused <=> ~reg'.initialized)]_vars
    /\ [][REG_unregisterProducer => reg'.paused]_vars

\* The provider was registered on a connected publisher and is running.
C39_Witness ==
    sys = "reg" /\ reg.producer /\ reg.initialized /\ ~reg.paused

C40_BacklogWrittenOnReconnect ==
    [][(NTS_connectionMade /\ nts_store # <<>>) =>
          /\ nts_store' = <<>>
          /\ Len(nts_written') = Len(nts_written) + Len(nts_store)]_vars

====
